---- MODULE Spec2Model ----
(***************************************************************************)
(* Video detection labeler: the annotation store (database.py) and the     *)
(* stream navigator with its rectangle cache (video_model.py).             *)
(*                                                                         *)
(* Conventions                                                             *)
(*   - Python None is the integer None (ids are >= 1, frame numbers and    *)
(*     timestamps are >= 0, so it collides with no real value).            *)
(*   - A value handed to the store from outside is a "raw" value           *)
(*     [t, v]: t = "int" is the integer v, t = "float" is the real         *)
(*     v + 1/2 (v >= 0), t = "str" is a non-numeric string.  int() and     *)
(*     float() are modelled on raw values.  A stored REAL is kept as the   *)
(*     number of halves it holds.                                          *)
(*   - A decoded frame is named by its ordinal in the container            *)
(*     (0 .. RealLen-1); its presentation timestamp is FramePts.           *)
(***************************************************************************)
EXTENDS Integers, Sequences, FiniteSets, TLC

VARIABLES
    \* ---- Database (database.py): one sequence of rows per table, in rowid order
    db_projects,        \* rows [id, name]
    db_classes,         \* rows [id, project_id, name]
    db_videos,          \* rows [id, project_id, name, fps, frame_count]
    db_rectangles,      \* rows [id, video_id, frame_index, class_id, x1, y1, x2, y2]
    \* ---- VideoModel (video_model.py)
    container,          \* the open file's path, or "" for None
    pos,                \* the container's demux position: ordinal of the next frame it yields
    frame_generator,    \* TRUE when a decode generator is held, FALSE for None
    current_frame,      \* ordinal of the frame held in current_frame, or None
    frame_count,
    current_frame_index,
    is_playing,
    first_frame_pts,
    frame_duration,
    project_id,
    video_id,
    video_name,         \* "" for None
    rectangles,         \* frame_index -> sequence of <<class_id, x1, y1, x2, y2>>
    \* ---- the decoding backend (PyAV)
    orphans,            \* containers opened, never closed and no longer held by the model
    \* ---- the dataset directory on disk, written by VideoController._export_dataset
    files,              \* path -> content; a path is <<split, kind, video_name, frame_index>>
    manifest,           \* data.yaml: [nc, names]; NoManifest when it does not exist
    \* ---- VideoController (video_controller.py): the training run
    is_training,
    training_process,   \* "none" for None, else the state of the process held: "alive" / "exited"
    log_queue,          \* FALSE for None, TRUE when a queue is held
    channel,            \* the messages put on the queue held and not yet read
    log_timer,          \* TRUE while the log poll timer is running
    \* ---- VideoController: playback and the GUI thread
    timer,              \* TRUE while the playback timer is running
    gui,                \* "idle", or the modal dialog a handler of the GUI thread waits on
    \* ---- observation of the calls made (not program state)
    last,               \* the last call: its name, arguments and result
    submitted           \* the keys handed to each store write so far

db_vars == <<db_projects, db_classes, db_videos, db_rectangles>>
nav_vars == <<container, pos, frame_generator, current_frame, frame_count,
              current_frame_index, is_playing, first_frame_pts, frame_duration>>
model_vars == <<nav_vars, project_id, video_id, video_name, rectangles>>
ctl_vars == <<files, manifest, is_training, training_process, log_queue, channel, log_timer>>
play_vars == <<timer, gui>>
vars == <<db_vars, model_vars, orphans, ctl_vars, play_vars, last, submitted>>

None == -1

(***************************************************************************)
(* Bounds of the model.                                                    *)
(***************************************************************************)
MaxRows == 2        \* rows the store may hold, all tables together (SpecStore)
MaxRects == 2       \* rectangles a session may add: cache entries and stored rows (SpecCache)

(***************************************************************************)
(* Raw values and the coercions the store applies to them.                 *)
(***************************************************************************)
IntRaw(n) == [t |-> "int", v |-> n]
FloatRaw(n) == [t |-> "float", v |-> n]
StrRaw == [t |-> "str", v |-> 0]

\* int(x) raises ValueError/TypeError on a non-numeric string
int_raises(x) == x.t = "str"
\* int(x): the integer itself, a non-negative real truncated
int(x) == x.v
\* float(x), in halves
float_raises(x) == x.t = "str"
float(x) == IF x.t = "float" THEN 2 * x.v + 1 ELSE 2 * x.v

Range(s) == {s[i] : i \in 1..Len(s)}
TotalRows == Len(db_projects) + Len(db_classes) + Len(db_videos) + Len(db_rectangles)

(***************************************************************************)
(* Schema: the UNIQUE constraints of _create_tables.  FOREIGN KEY clauses  *)
(* are declared but sqlite3 does not enforce them unless                   *)
(* PRAGMA foreign_keys is switched on, which the program never does.       *)
(***************************************************************************)
ProjectKey(r) == r.name
ClassKey(r) == <<r.project_id, r.name>>
VideoKey(r) == <<r.project_id, r.name>>
RectKey(r) == <<r.video_id, r.frame_index, r.class_id, r.x1, r.y1, r.x2, r.y2>>

\* a classes table declared UNIQUE (name)
ClassesUniqueByNameOnly(tbl, pid, name) == \E r \in Range(tbl) : r.name = name

\* a rectangles table without its UNIQUE constraint
RectanglesNoUnique(tbl, key) == FALSE

\* INSERT raises IntegrityError
ProjectsUniqueViolated(tbl, name) == \E r \in Range(tbl) : ProjectKey(r) = name
ClassesUniqueViolated(tbl, pid, name) == \E r \in Range(tbl) : ClassKey(r) = <<pid, name>>
RectanglesUniqueViolated(tbl, key) == \E r \in Range(tbl) : RectKey(r) = key

\* AUTOINCREMENT rowid: no row is ever deleted, so the next id is the row count + 1
NextId(tbl) == Len(tbl) + 1

\* SELECT id ... WHERE <key>; fetchone(): the id of the first of the matching
\* rows (I holds their positions), or None when no row matched
FetchOneId(tbl, I) == IF I = {} THEN None ELSE tbl[CHOOSE i \in I : \A j \in I : i <= j].id

\* a collision answered with cursor.lastrowid, the id of the row inserted last
SelectProjectIdLastRow(tbl, name) == Len(tbl)

\* SELECT id FROM projects WHERE name = ?
SelectProjectId(tbl, name) == FetchOneId(tbl, {i \in 1..Len(tbl) : tbl[i].name = name})

\* SELECT id FROM classes WHERE project_id = ? AND name = ?
SelectClassId(tbl, pid, name) ==
    FetchOneId(tbl, {i \in 1..Len(tbl) : tbl[i].project_id = pid /\ tbl[i].name = name})

\* a lookup of the video by its name alone
SelectVideoIdByName(tbl, pid, name) ==
    FetchOneId(tbl, {i \in 1..Len(tbl) : tbl[i].name = name})

\* SELECT id FROM videos WHERE project_id = ? AND name = ?
SelectVideoId(tbl, pid, name) ==
    FetchOneId(tbl, {i \in 1..Len(tbl) : tbl[i].project_id = pid /\ tbl[i].name = name})

(***************************************************************************)
(* Database.create_project                                                 *)
(***************************************************************************)
create_project_result(tbl, name) ==
    IF ProjectsUniqueViolated(tbl, name)
    THEN [tbl |-> tbl, ret |-> SelectProjectId(tbl, name), raised |-> FALSE]
    ELSE [tbl |-> Append(tbl, [id |-> NextId(tbl), name |-> name]),
          ret |-> NextId(tbl), raised |-> FALSE]

(***************************************************************************)
(* Database.create_class: int(project_id) is evaluated inside the try, but *)
(* only sqlite3 errors are caught, so a ValueError reaches the caller.     *)
(***************************************************************************)
create_class_result(tbl, pid_raw, name) ==
    IF int_raises(pid_raw)
    THEN [tbl |-> tbl, ret |-> None, raised |-> TRUE]
    ELSE LET pid == int(pid_raw) IN
         IF ClassesUniqueViolated(tbl, pid, name)
         THEN [tbl |-> tbl, ret |-> SelectClassId(tbl, pid, name), raised |-> FALSE]
         ELSE [tbl |-> Append(tbl, [id |-> NextId(tbl), project_id |-> pid, name |-> name]),
               ret |-> NextId(tbl), raised |-> FALSE]

(***************************************************************************)
(* Database.get_or_create_video: SELECT, then INSERT when no row matched.  *)
(***************************************************************************)
get_or_create_video_result(tbl, pid_raw, name, fps_raw, frame_count_raw) ==
    IF int_raises(pid_raw) \/ float_raises(fps_raw) \/ int_raises(frame_count_raw)
    THEN [tbl |-> tbl, ret |-> None, raised |-> FALSE]
    ELSE LET pid == int(pid_raw)
             found == SelectVideoId(tbl, pid, name)
         IN  IF found # None
             THEN [tbl |-> tbl, ret |-> found, raised |-> FALSE]
             ELSE [tbl |-> Append(tbl, [id |-> NextId(tbl), project_id |-> pid,
                                        name |-> name, fps |-> float(fps_raw),
                                        frame_count |-> int(frame_count_raw)]),
                   ret |-> NextId(tbl), raised |-> FALSE]

(***************************************************************************)
(* Database.save_rectangle: args is the 7-tuple of raw values              *)
(* <<video_id, frame_index, class_id, x1, y1, x2, y2>>.                    *)
(***************************************************************************)
save_rectangle_result(tbl, args) ==
    IF \E k \in 1..7 : int_raises(args[k])
    THEN [tbl |-> tbl, ok |-> FALSE]
    ELSE LET key == [k \in 1..7 |-> int(args[k])] IN
         IF RectanglesUniqueViolated(tbl, key)
         THEN [tbl |-> tbl, ok |-> FALSE]
         ELSE [tbl |-> Append(tbl, [id |-> NextId(tbl), video_id |-> key[1],
                                    frame_index |-> key[2], class_id |-> key[3],
                                    x1 |-> key[4], y1 |-> key[5],
                                    x2 |-> key[6], y2 |-> key[7]]),
               ok |-> TRUE]

(***************************************************************************)
(* Database.get_all_rectangles_for_video:                                  *)
(*   SELECT ... FROM rectangles WHERE video_id = ? ORDER BY frame_index    *)
(* sqlite answers this query from the index behind the UNIQUE constraint   *)
(* (SEARCH rectangles USING INDEX sqlite_autoindex_rectangles_1), so the   *)
(* rows of one video come back in index order: by frame_index, then by     *)
(* class_id, x1, y1, x2, y2.  Rows of one frame are NOT in rowid order.    *)
(***************************************************************************)
KeyLess(a, b) ==
    \E i \in 1..7 : a[i] < b[i] /\ \A j \in 1..(i - 1) : a[j] = b[j]

RECURSIVE IndexOrder(_)
IndexOrder(S) ==
    IF S = {} THEN <<>>
    ELSE LET m == CHOOSE r \in S : \A o \in S \ {r} : KeyLess(RectKey(r), RectKey(o))
         IN  <<m>> \o IndexOrder(S \ {m})

\* the query without its WHERE clause
get_all_rectangles_unfiltered(tbl, vid) == IndexOrder(Range(tbl))

get_all_rectangles_for_video(tbl, vid) ==
    IndexOrder({r \in Range(tbl) : r.video_id = vid})

(***************************************************************************)
(* The media files the user may open (the PyAV container and stream).      *)
(*   a.mp4  4 frames, reported by the stream; time base 1/100 at 25 fps,   *)
(*          so frames are exactly 4 ticks apart; a keyframe every 2 frames *)
(*   b.mp4  3 frames, no frame count in the stream; its NUMBER_OF_FRAMES   *)
(*          tag says 5 and over-estimates the stream                       *)
(*   c.mp4  5 frames; time base 1/10 at 4 fps: 2.5 ticks per frame, the    *)
(*          muxer rounds each timestamp; a keyframe every 3 frames         *)
(*   x.mp4  cannot be opened                                               *)
(*   n.mp4  opens, holds no video stream (streams.video[0] raises)         *)
(*   m.mp4  opens, no frame count in the stream, and a NUMBER_OF_FRAMES    *)
(*          tag that is not a number (int() raises)                        *)
(*   e.mp4  opens, its decoder yields no frame                             *)
(***************************************************************************)
VideoFiles == {"a.mp4", "b.mp4", "c.mp4", "x.mp4"}

CanOpen(f) == f # "x.mp4"
HasVideoStream(f) == f # "n.mp4"
MetadataParses(f) == f # "m.mp4"
RealLen(f) == CASE f = "a.mp4" -> 4 [] f = "b.mp4" -> 3 [] f = "c.mp4" -> 5 [] OTHER -> 0
StreamFrames(f) == CASE f = "a.mp4" -> 4 [] f = "c.mp4" -> 5 [] OTHER -> 0
MetaNumberOfFrames(f) == CASE f = "b.mp4" -> 5 [] OTHER -> 0
DurationSeconds(f) == 0
TimeBaseNum(f) == 1
TimeBaseDen(f) == CASE f = "c.mp4" -> 10 [] OTHER -> 100
AverageRate(f) == CASE f = "a.mp4" -> 25 [] f = "b.mp4" -> 50 [] OTHER -> 4
Gop(f) == CASE f = "a.mp4" -> 2 [] OTHER -> 3
FirstPts(f) == CASE f = "a.mp4" -> 8 [] OTHER -> 0

\* presentation timestamp of the k-th frame: first + k * den / (num * rate), rounded
FramePts(f, k) ==
    FirstPts(f) + (2 * k * TimeBaseDen(f) + TimeBaseNum(f) * AverageRate(f))
                      \div (2 * TimeBaseNum(f) * AverageRate(f))
IsKeyFrame(f, k) == k % Gop(f) = 0

SetMax(S) == CHOOSE m \in S : \A o \in S : o <= m
SetMin(S) == CHOOSE m \in S : \A o \in S : m <= o

\* container.seek(target_pts, stream=self.stream, backward=True): the demuxer is
\* left at the last keyframe whose timestamp is <= target_pts (the first frame
\* when there is none)
ContainerSeek(f, target_pts) ==
    LET ks == {k \in 0..(RealLen(f) - 1) : IsKeyFrame(f, k) /\ FramePts(f, k) <= target_pts}
    IN  IF ks = {} THEN 0 ELSE SetMax(ks)

\* a scan that stops at the first frame with pts > target_pts
ScanForwardStrict(f, from, target_pts) ==
    LET ks == {k \in from..(RealLen(f) - 1) : FramePts(f, k) > target_pts}
    IN  IF ks = {} THEN None ELSE CHOOSE m \in ks : \A o \in ks : m <= o

\* the scan loop of seek: next(generator) until frame.pts >= target_pts;
\* the ordinal of the frame found, or None when the decoder is exhausted first
ScanForward(f, from, target_pts) ==
    LET ks == {k \in from..(RealLen(f) - 1) : FramePts(f, k) >= target_pts}
    IN  IF ks = {} THEN None ELSE SetMin(ks)

(***************************************************************************)
(* VideoModel.load_video, lines 53-79: the frame count fallback chain.     *)
(***************************************************************************)
DefaultFrameCount == 1000

ResolveFrameCount(f) ==
    IF StreamFrames(f) # 0 THEN StreamFrames(f)
    ELSE IF MetaNumberOfFrames(f) # 0 THEN MetaNumberOfFrames(f)
    ELSE IF DurationSeconds(f) * AverageRate(f) # 0 THEN DurationSeconds(f) * AverageRate(f)
    ELSE DefaultFrameCount

\* int(time_base.denominator / (time_base.numerator * average_rate))
FrameDuration(f) == TimeBaseDen(f) \div (TimeBaseNum(f) * AverageRate(f))

(***************************************************************************)
(* VideoModel._load_rectangles_from_db: group the rows by frame index, in  *)
(* the order the query returned them.                                      *)
(***************************************************************************)
RectTuple(r) == <<r.class_id, r.x1, r.y1, r.x2, r.y2>>

\* a loader that reads the table in rowid order
_load_rectangles_in_rowid_order(tbl, vid) ==
    LET rows == SelectSeq(tbl, LAMBDA r : r.video_id = vid)
        OnFrame(fi) == SelectSeq(rows, LAMBDA r : r.frame_index = fi)
    IN  [fi \in {r.frame_index : r \in Range(rows)} |->
            [i \in 1..Len(OnFrame(fi)) |-> RectTuple(OnFrame(fi)[i])]]

_load_rectangles_from_db(tbl, vid) ==
    LET rows == get_all_rectangles_for_video(tbl, vid)
        OnFrame(fi) == SelectSeq(rows, LAMBDA r : r.frame_index = fi)
    IN  [fi \in {r.frame_index : r \in Range(rows)} |->
            [i \in 1..Len(OnFrame(fi)) |-> RectTuple(OnFrame(fi)[i])]]

EmptyCache == [fi \in {} |-> <<>>]

\* what the store holds for a video: its labeled frames, and a frame's rectangles
StoreFrames(vid) == {r.frame_index : r \in {x \in Range(db_rectangles) : x.video_id = vid}}
StoreRects(vid, fi) ==
    {RectTuple(r) : r \in {x \in Range(db_rectangles) : x.video_id = vid /\ x.frame_index = fi}}

(***************************************************************************)
(* VideoModel.get_frames_with_rectangles: sorted(list(self.rectangles.keys()))*)
(***************************************************************************)
\* sorted(..., reverse=True)
RECURSIVE sorted_reverse(_)
sorted_reverse(S) ==
    IF S = {} THEN <<>> ELSE <<SetMax(S)>> \o sorted_reverse(S \ {SetMax(S)})

RECURSIVE sorted(_)
sorted(S) == IF S = {} THEN <<>> ELSE <<SetMin(S)>> \o sorted(S \ {SetMin(S)})

get_frames_with_rectangles == sorted(DOMAIN rectangles)

(***************************************************************************)
(* Initial state: a fresh store (videos.db does not exist yet) and the     *)
(* VideoModel as __init__ leaves it.                                       *)
(***************************************************************************)
NoCall ==
    [op |-> "init", arg |-> <<>>, ret |-> None, ok |-> FALSE, raised |-> FALSE,
     existed |-> FALSE, pre_len |-> 0, out |-> <<>>, propagated |-> FALSE]

\* an empty dataset directory, without a data.yaml
NoManifest == [nc |-> None, names |-> <<>>]
NoFiles == [path \in {} |-> <<>>]

\* the record of a call
Call(op, arg) == [NoCall EXCEPT !.op = op, !.arg = arg]

\* a fresh store: videos.db does not exist yet
EmptyStore ==
    /\ db_projects = <<>>
    /\ db_classes = <<>>
    /\ db_videos = <<>>
    /\ db_rectangles = <<>>

\* no dataset was exported yet
EmptyDatasets ==
    /\ files = NoFiles
    /\ manifest = NoManifest

\* the VideoModel and the VideoController as their constructors leave them
Constructed ==
    /\ container = ""
    /\ pos = 0
    /\ frame_generator = FALSE
    /\ current_frame = None
    /\ frame_count = 0
    /\ current_frame_index = 0
    /\ is_playing = FALSE
    /\ first_frame_pts = None
    /\ frame_duration = None
    /\ project_id = None
    /\ video_id = None
    /\ video_name = ""
    /\ rectangles = EmptyCache
    /\ orphans = {}
    /\ is_training = FALSE
    /\ training_process = "none"
    /\ log_queue = FALSE
    /\ channel = <<>>
    /\ log_timer = FALSE
    /\ timer = FALSE
    /\ gui = "idle"
    /\ last = NoCall
    /\ submitted = [projects |-> {}, classes |-> {}, videos |-> {}, rects |-> {}]

Init == EmptyStore /\ EmptyDatasets /\ Constructed

(***************************************************************************)
(* The store's writes as operations of their own (the controller's         *)
(* _add_project and _add_class, and any other caller of the Database).     *)
(***************************************************************************)
create_project(name) ==
    LET res == create_project_result(db_projects, name) IN
    /\ TotalRows + (Len(res.tbl) - Len(db_projects)) <= MaxRows
    /\ db_projects' = res.tbl
    /\ last' = [Call("create_project", <<name>>) EXCEPT
                   !.ret = res.ret, !.ok = res.ret # None, !.raised = res.raised,
                   !.existed = \E r \in Range(db_projects) : r.name = name]
    /\ submitted' = [submitted EXCEPT !.projects = @ \cup {name}]
    /\ UNCHANGED <<ctl_vars, orphans, play_vars, db_classes, db_videos, db_rectangles, model_vars>>

create_class(pid_raw, name) ==
    LET res == create_class_result(db_classes, pid_raw, name) IN
    /\ TotalRows + (Len(res.tbl) - Len(db_classes)) <= MaxRows
    /\ db_classes' = res.tbl
    /\ last' = [Call("create_class", <<pid_raw, name>>) EXCEPT
                   !.ret = res.ret, !.ok = res.ret # None, !.raised = res.raised,
                   !.existed = ~int_raises(pid_raw) /\
                               \E r \in Range(db_classes) :
                                   r.project_id = int(pid_raw) /\ r.name = name]
    /\ submitted' = IF ~int_raises(pid_raw)
                    THEN [submitted EXCEPT !.classes = @ \cup {<<int(pid_raw), name>>}]
                    ELSE submitted
    /\ UNCHANGED <<ctl_vars, orphans, play_vars, db_projects, db_videos, db_rectangles, model_vars>>

get_or_create_video(pid_raw, name, fps_raw, frame_count_raw) ==
    LET res == get_or_create_video_result(db_videos, pid_raw, name, fps_raw, frame_count_raw) IN
    /\ TotalRows + (Len(res.tbl) - Len(db_videos)) <= MaxRows
    /\ db_videos' = res.tbl
    /\ last' = [Call("get_or_create_video", <<pid_raw, name, fps_raw, frame_count_raw>>) EXCEPT
                   !.ret = res.ret, !.ok = res.ret # None, !.raised = res.raised,
                   !.existed = ~int_raises(pid_raw) /\
                               \E r \in Range(db_videos) :
                                   r.project_id = int(pid_raw) /\ r.name = name]
    /\ submitted' = IF ~(int_raises(pid_raw) \/ float_raises(fps_raw)
                                             \/ int_raises(frame_count_raw))
                    THEN [submitted EXCEPT !.videos = @ \cup {<<int(pid_raw), name>>}]
                    ELSE submitted
    /\ UNCHANGED <<ctl_vars, orphans, play_vars, db_projects, db_classes, db_rectangles, model_vars>>

\* the canonical tuple of a call's arguments, when every one of them coerces
Coercible(args) == \A k \in 1..7 : ~int_raises(args[k])
Values(args) == [k \in 1..7 |-> int(args[k])]

save_rectangle(args) ==
    LET res == save_rectangle_result(db_rectangles, args) IN
    /\ TotalRows + (Len(res.tbl) - Len(db_rectangles)) <= MaxRows
    /\ db_rectangles' = res.tbl
    /\ last' = [Call("save_rectangle", args) EXCEPT
                   !.ok = res.ok,
                   !.existed = Coercible(args) /\
                               \E r \in Range(db_rectangles) : RectKey(r) = Values(args)]
    /\ submitted' = IF Coercible(args)
                    THEN [submitted EXCEPT !.rects = @ \cup {Values(args)}]
                    ELSE submitted
    /\ UNCHANGED <<ctl_vars, orphans, play_vars, db_projects, db_classes, db_videos, model_vars>>

\* the arguments the store operations are tried with
ProjectNames == {"p", "q"}
ClassNames == {"car", "dog"}
ProjectIdArgs == {IntRaw(1), IntRaw(2), StrRaw}
VideoNameArgs == {"a.mp4", "b.mp4"}
VideoInfoArgs == {<<IntRaw(25), IntRaw(5)>>, <<FloatRaw(29), IntRaw(6)>>, <<StrRaw, IntRaw(5)>>}
RectArgs ==
    {<<IntRaw(1), IntRaw(0), IntRaw(1), IntRaw(10), IntRaw(20), IntRaw(110), IntRaw(120)>>,
     <<IntRaw(1), IntRaw(0), IntRaw(1), IntRaw(11), IntRaw(20), IntRaw(110), IntRaw(120)>>,
     <<IntRaw(1), IntRaw(0), IntRaw(2), IntRaw(10), IntRaw(20), IntRaw(110), IntRaw(120)>>,
     <<IntRaw(1), IntRaw(1), IntRaw(1), IntRaw(10), IntRaw(20), IntRaw(110), IntRaw(120)>>,
     <<IntRaw(2), IntRaw(0), IntRaw(1), IntRaw(10), IntRaw(20), IntRaw(110), IntRaw(120)>>,
     <<IntRaw(1), IntRaw(0), IntRaw(1), IntRaw(10), IntRaw(20), IntRaw(110), IntRaw(121)>>,
     <<IntRaw(1), IntRaw(0), IntRaw(1), FloatRaw(10), IntRaw(20), IntRaw(110), IntRaw(120)>>,
     <<IntRaw(1), IntRaw(0), StrRaw, IntRaw(10), IntRaw(20), IntRaw(110), IntRaw(120)>>}

CreateProject == \E name \in ProjectNames : create_project(name)
CreateClass == \E pid \in ProjectIdArgs, name \in ClassNames : create_class(pid, name)
GetOrCreateVideo ==
    \E pid \in ProjectIdArgs, name \in VideoNameArgs, info \in VideoInfoArgs :
        get_or_create_video(pid, name, info[1], info[2])
SaveRectangle == \E args \in RectArgs : save_rectangle(args)

NextStore == CreateProject \/ CreateClass \/ GetOrCreateVideo \/ SaveRectangle
SpecStore == Init /\ [][NextStore]_vars

(***************************************************************************)
(* VideoModel.cleanup                                                      *)
(***************************************************************************)
\* a cleanup that resets the fields and keeps the container it holds
cleanup_keeping_container ==
    /\ UNCHANGED container
    /\ pos' = 0
    /\ frame_generator' = FALSE
    /\ current_frame' = None
    /\ frame_count' = 0
    /\ current_frame_index' = 0
    /\ is_playing' = FALSE
    /\ first_frame_pts' = None
    /\ frame_duration' = None
    /\ video_id' = None
    /\ video_name' = ""
    /\ rectangles' = EmptyCache

\* lines 349-364: the container held is closed, every field but project_id reset
cleanup ==
    /\ container' = ""
    /\ pos' = 0
    /\ frame_generator' = FALSE
    /\ current_frame' = None
    /\ frame_count' = 0
    /\ current_frame_index' = 0
    /\ is_playing' = FALSE
    /\ first_frame_pts' = None
    /\ frame_duration' = None
    /\ video_id' = None
    /\ video_name' = ""
    /\ rectangles' = EmptyCache

(***************************************************************************)
(* VideoModel.set_project                                                  *)
(***************************************************************************)
set_project(p) ==
    /\ project_id' = p
    /\ cleanup
    /\ last' = Call("set_project", <<p>>)
    /\ UNCHANGED <<ctl_vars, orphans, play_vars, db_vars, submitted>>

(***************************************************************************)
(* VideoModel.reset_to_start and _load_frame call each other: reset seeks  *)
(* to first_frame_pts, makes a new generator and calls _load_frame, which  *)
(* on StopIteration calls reset_to_start again (line 161), one Python      *)
(* frame deeper each time.  Nothing in the two functions tells a second    *)
(* attempt from the first, so a decoder that yields no frame after the     *)
(* seek is asked again until the interpreter refuses a deeper call         *)
(* (RecursionError at MaxCallDepth).  container.seek(None) raises at once. *)
(* The run is <<number of reset_to_start calls made, how it ended>>.       *)
(***************************************************************************)
MaxCallDepth == 6   \* nested reset_to_start calls the interpreter allows

RECURSIVE reset_to_start_run(_, _, _)
reset_to_start_run(f, pts, depth) ==
    IF depth >= MaxCallDepth THEN <<depth, "RecursionError">>
    ELSE IF pts = None THEN <<depth + 1, "TypeError">>
    ELSE IF RealLen(f) > 0 THEN <<depth + 1, "returned">>
    ELSE reset_to_start_run(f, pts, depth + 1)

(***************************************************************************)
(* VideoModel.load_video.  The body runs in one try block: any exception   *)
(* ends in cleanup().  An empty stream raises inside reset_to_start (a     *)
(* seek to first_frame_pts = None, or an unbounded recursion with a stale  *)
(* first_frame_pts), after the store row was written.  is_playing is not   *)
(* touched by a successful load.  db_error is an sqlite3.Error inside      *)
(* get_or_create_video, which answers None.  Line 50 assigns the new       *)
(* container over the one held without closing it: the old one is closed   *)
(* only when the runtime finalizes it (collect_garbage).  When av.open     *)
(* itself raises, self.container still holds the old one and cleanup()     *)
(* closes it.  last.raised tells that the except clause ran.               *)
(***************************************************************************)
load_video(file_path, db_error) ==
    IF project_id = None
    THEN /\ last' = Call("load_video", <<file_path>>)
         /\ UNCHANGED <<ctl_vars, orphans, play_vars, db_vars, model_vars, submitted>>
    ELSE IF ~CanOpen(file_path)
    THEN /\ cleanup
         /\ last' = [Call("load_video", <<file_path>>) EXCEPT !.raised = TRUE]
         /\ UNCHANGED <<ctl_vars, orphans, play_vars, db_vars, project_id, submitted>>
    ELSE /\ orphans' = IF container # "" THEN orphans \cup {container} ELSE orphans
         /\ IF ~HasVideoStream(file_path) \/ ~MetadataParses(file_path)
            THEN /\ cleanup
                 /\ last' = [Call("load_video", <<file_path>>) EXCEPT !.raised = TRUE]
                 /\ UNCHANGED <<ctl_vars, play_vars, db_vars, project_id, submitted>>
            ELSE LET fc == ResolveFrameCount(file_path)
                     res == IF db_error
                            THEN [tbl |-> db_videos, ret |-> None, raised |-> FALSE]
                            ELSE get_or_create_video_result(
                                     db_videos, IntRaw(project_id), file_path,
                                     IntRaw(AverageRate(file_path)), IntRaw(fc))
                 IN  /\ db_videos' = res.tbl
                     /\ submitted' = [submitted EXCEPT
                                         !.videos = @ \cup {<<project_id, file_path>>}]
                     /\ UNCHANGED <<ctl_vars, play_vars, db_projects, db_classes,
                                    db_rectangles, project_id>>
                     /\ IF res.ret = None
                        THEN /\ cleanup
                             /\ last' = [Call("load_video", <<file_path>>) EXCEPT
                                            !.ret = res.ret, !.raised = TRUE]
                        ELSE IF RealLen(file_path) = 0
                        THEN /\ cleanup
                             /\ last' = [Call("load_video", <<file_path>>) EXCEPT
                                            !.ret = res.ret, !.raised = TRUE,
                                            !.out = reset_to_start_run(
                                                        file_path, first_frame_pts, 0)]
                        ELSE /\ container' = file_path
                             /\ frame_count' = fc
                             /\ video_name' = file_path
                             /\ video_id' = res.ret
                             /\ current_frame_index' = 0
                             /\ rectangles' = _load_rectangles_from_db(db_rectangles, res.ret)
                             /\ frame_generator' = TRUE
                             /\ first_frame_pts' = FramePts(file_path, 0)
                             /\ frame_duration' = FrameDuration(file_path)
                             /\ current_frame' = 0
                             /\ pos' = 1
                             /\ UNCHANGED is_playing
                             /\ last' = [Call("load_video", <<file_path>>) EXCEPT
                                            !.ret = res.ret, !.ok = TRUE]

(***************************************************************************)
(* VideoModel.reset_to_start with _load_frame, for an open container that  *)
(* holds at least one frame (load_video keeps no other): index 0, the      *)
(* container back at its start, a new generator, and its first frame       *)
(* loaded.  The outcome is [idx, cf, pos, playing].                        *)
(***************************************************************************)
\* a fallback that stays where the exhausted decoder left the navigator
stay_at_end_outcome(playing) ==
    [idx |-> current_frame_index, cf |-> current_frame, pos |-> RealLen(container),
     playing |-> playing]

reset_to_start_outcome(playing) == [idx |-> 0, cf |-> 0, pos |-> 1, playing |-> playing]

(***************************************************************************)
(* VideoModel.seek, after its guard.                                       *)
(***************************************************************************)
\* a seek that takes its argument as it comes
ClampNothing(frame_index) == frame_index

\* line 290: max(0, min(frame_index, self.frame_count - 1))
Clamp(frame_index) ==
    IF frame_index > frame_count - 1
    THEN (IF frame_count - 1 < 0 THEN 0 ELSE frame_count - 1)
    ELSE (IF frame_index < 0 THEN 0 ELSE frame_index)

TargetPts(frame_index) == first_frame_pts + frame_index * frame_duration

seek_outcome(frame_index) ==
    LET fi == Clamp(frame_index)
        start == ContainerSeek(container, TargetPts(fi))
        found == ScanForward(container, start, TargetPts(fi))
    IN  IF found # None
        THEN [idx |-> fi, cf |-> found, pos |-> found + 1, playing |-> is_playing]
        ELSE reset_to_start_outcome(is_playing)

Apply(out) ==
    /\ current_frame_index' = out.idx
    /\ current_frame' = out.cf
    /\ pos' = out.pos
    /\ is_playing' = out.playing
    /\ frame_generator' = TRUE
    /\ UNCHANGED <<container, frame_count, first_frame_pts, frame_duration>>

\* lines 298-310 when the backend raises: nothing is caught.  A failing
\* container.seek (line 298) comes before any assignment; a failing next()
\* (line 305) comes after the new generator was stored and the container moved.
seek_failure(frame_index, err) ==
    LET start == ContainerSeek(container, TargetPts(Clamp(frame_index)))
        len == RealLen(container)
    IN  [idx |-> current_frame_index, cf |-> current_frame,
         pos |-> IF err = "seek" THEN pos ELSE IF start + 1 < len THEN start + 1 ELSE len,
         playing |-> is_playing]

seek(frame_index, err) ==
    /\ UNCHANGED <<ctl_vars, orphans, play_vars, db_vars, submitted, project_id, video_id, video_name, rectangles>>
    /\ IF container = "" \/ first_frame_pts = None
       THEN /\ last' = Call("seek", <<frame_index>>)
            /\ UNCHANGED nav_vars
       ELSE IF err # "none"
       THEN /\ last' = [Call("seek", <<frame_index>>) EXCEPT
                           !.raised = TRUE, !.propagated = TRUE]
            /\ Apply(seek_failure(frame_index, err))
       ELSE /\ last' = Call("seek", <<frame_index>>)
            /\ Apply(seek_outcome(frame_index))

(***************************************************************************)
(* VideoModel.advance_frame with _load_frame.                              *)
(***************************************************************************)
\* an advance that stops on the last frame at the end of the stream
advance_frame_outcome_staying ==
    IF current_frame_index + 1 < frame_count /\ pos < RealLen(container)
    THEN [idx |-> current_frame_index + 1, cf |-> pos, pos |-> pos + 1, playing |-> is_playing]
    ELSE [idx |-> current_frame_index, cf |-> current_frame, pos |-> pos, playing |-> FALSE]

\* an advance that counts on past the last frame
advance_frame_outcome_counting ==
    [idx |-> current_frame_index + 1, cf |-> current_frame, pos |-> pos, playing |-> is_playing]

advance_frame_outcome ==
    IF current_frame_index + 1 >= frame_count
    THEN reset_to_start_outcome(FALSE)
    ELSE IF pos < RealLen(container)
    THEN [idx |-> current_frame_index + 1, cf |-> pos, pos |-> pos + 1, playing |-> is_playing]
    ELSE reset_to_start_outcome(FALSE)

\* the advance goes through reset_to_start: past frame_count (line 333) or on
\* an exhausted generator (line 161)
advance_frame_resets == current_frame_index + 1 >= frame_count \/ pos >= RealLen(container)

\* a failing container.seek is met only inside reset_to_start (line 280), a
\* failing next() on either path (line 153)
advance_frame_raises(err) == err = "decode" \/ (err = "seek" /\ advance_frame_resets)

\* nothing is caught: line 328 has incremented current_frame_index, and the
\* reset path has stopped playback and set the index to 0, before the raise
advance_frame_failure(err) ==
    IF ~advance_frame_resets
    THEN [idx |-> current_frame_index + 1, cf |-> current_frame, pos |-> pos + 1,
          playing |-> is_playing]
    ELSE [idx |-> 0, cf |-> current_frame, pos |-> IF err = "seek" THEN pos ELSE 1,
          playing |-> FALSE]

advance_frame(err) ==
    /\ UNCHANGED <<ctl_vars, orphans, play_vars, db_vars, submitted, project_id, video_id, video_name, rectangles>>
    /\ IF container = ""
       THEN /\ last' = Call("advance_frame", <<>>)
            /\ UNCHANGED nav_vars
       ELSE IF advance_frame_raises(err)
       THEN /\ last' = [Call("advance_frame", <<>>) EXCEPT
                           !.raised = TRUE, !.propagated = TRUE]
            /\ Apply(advance_frame_failure(err))
       ELSE /\ last' = Call("advance_frame", <<>>)
            /\ Apply(advance_frame_outcome)

(***************************************************************************)
(* VideoModel.toggle_playback                                              *)
(***************************************************************************)
toggle_playback ==
    /\ is_playing' = ~is_playing
    /\ last' = Call("toggle_playback", <<>>)
    /\ UNCHANGED <<ctl_vars, orphans, play_vars, db_vars, submitted, project_id, video_id, video_name, rectangles,
                   container, pos, frame_generator, current_frame, frame_count,
                   current_frame_index, first_frame_pts, frame_duration>>

(***************************************************************************)
(* VideoModel.get_frame_by_index.  err is the failure the decoding backend *)
(* raises during the call: "none", "seek" (container.seek raises) or       *)
(* "decode" (the first next() raises); the except clause turns both into   *)
(* a None result.  The scan uses a generator of its own, but every         *)
(* generator reads the one container, so the scan moves the container's    *)
(* position: past the frame found, and one frame further when the frame    *)
(* found has exactly the target timestamp (the loop then reads one more    *)
(* frame before it breaks).  The finally block seeks back only when        *)
(* current_frame_index differs from the index saved on entry, and the      *)
(* body never assigns current_frame_index.                                 *)
(***************************************************************************)
\* a preview that returns the key frame the container seek lands on
get_frame_by_index_keyframe(frame_index, err) ==
    LET start == ContainerSeek(container, TargetPts(frame_index))
    IN  [ret |-> start, pos |-> start + 1]

get_frame_by_index_scan(frame_index, err) ==
    LET target == TargetPts(frame_index)
        start == ContainerSeek(container, target)
        found == ScanForward(container, start, target)
        len == RealLen(container)
    IN  IF err = "seek" THEN [ret |-> None, pos |-> pos]
        ELSE IF err = "decode"
        THEN [ret |-> None, pos |-> IF start + 1 < len THEN start + 1 ELSE len]
        ELSE IF found = None THEN [ret |-> None, pos |-> len]
        ELSE IF FramePts(container, found) = target
        THEN [ret |-> found, pos |-> IF found + 2 < len THEN found + 2 ELSE len]
        ELSE [ret |-> found, pos |-> found + 1]

\* a get_frame_by_index that moves the navigator the way seek does and does not come back
get_frame_by_index_via_seek(frame_index, err) ==
    /\ UNCHANGED <<ctl_vars, orphans, play_vars, db_vars, submitted, project_id, video_id, video_name, rectangles>>
    /\ IF container = "" \/ first_frame_pts = None \/ frame_index < 0 \/ frame_index >= frame_count
       THEN /\ last' = Call("get_frame_by_index", <<frame_index>>)
            /\ UNCHANGED nav_vars
       ELSE /\ last' = [Call("get_frame_by_index", <<frame_index>>) EXCEPT
                           !.ret = seek_outcome(frame_index).cf, !.ok = TRUE]
            /\ Apply(seek_outcome(frame_index))

get_frame_by_index(frame_index, err) ==
    /\ UNCHANGED <<ctl_vars, orphans, play_vars, db_vars, submitted, project_id, video_id, video_name, rectangles>>
    /\ IF container = "" \/ first_frame_pts = None \/ frame_index < 0 \/ frame_index >= frame_count
       THEN /\ last' = Call("get_frame_by_index", <<frame_index>>)
            /\ UNCHANGED nav_vars
       ELSE LET original_frame_index == current_frame_index
                scan == get_frame_by_index_scan(frame_index, err)
            IN  /\ last' = [Call("get_frame_by_index", <<frame_index>>) EXCEPT
                               !.ret = scan.ret, !.ok = scan.ret # None,
                               !.raised = err # "none"]
                /\ IF current_frame_index # original_frame_index
                   THEN Apply(seek_outcome(original_frame_index))
                   ELSE /\ pos' = scan.pos
                        /\ UNCHANGED <<container, frame_generator, current_frame, frame_count,
                                       current_frame_index, is_playing, first_frame_pts,
                                       frame_duration>>

(***************************************************************************)
(* VideoModel.add_rectangle.  The coordinates arrive as integers (the      *)
(* rectangle_drawn signal is Signal(int, int, int, int)); class_id is the  *)
(* selected class or None.                                                 *)
(***************************************************************************)
AppendRect(cache, fi, t) ==
    IF fi \in DOMAIN cache
    THEN [cache EXCEPT ![fi] = Append(@, t)]
    ELSE cache @@ (fi :> <<t>>)

\* the cache once save_rectangle has answered: a rejected rectangle is removed again
CacheDropsRejected(appended, before, success) == IF success THEN appended ELSE before

\* lines 197-202: the appended entry stays whatever save_rectangle answered
CacheAfterSave(appended, before, success) == appended

CacheSize == LET RECURSIVE Sum(_)
                 Sum(S) == IF S = {} THEN 0
                           ELSE LET fi == CHOOSE x \in S : TRUE
                                IN  Len(rectangles[fi]) + Sum(S \ {fi})
             IN  Sum(DOMAIN rectangles)

add_rectangle(class_id, x1, y1, x2, y2) ==
    IF video_id = None \/ class_id = None
    THEN /\ last' = Call("add_rectangle", <<class_id, x1, y1, x2, y2>>)
         /\ UNCHANGED <<ctl_vars, orphans, play_vars, db_vars, model_vars, submitted>>
    ELSE LET args == <<IntRaw(video_id), IntRaw(current_frame_index), IntRaw(class_id),
                       IntRaw(x1), IntRaw(y1), IntRaw(x2), IntRaw(y2)>>
             res == save_rectangle_result(db_rectangles, args)
             appended == AppendRect(rectangles, current_frame_index, <<class_id, x1, y1, x2, y2>>)
         IN  /\ CacheSize < MaxRects
             /\ Len(res.tbl) <= MaxRects
             /\ rectangles' = CacheAfterSave(appended, rectangles, res.ok)
             /\ db_rectangles' = res.tbl
             /\ submitted' = [submitted EXCEPT !.rects = @ \cup {Values(args)}]
             /\ last' = [Call("add_rectangle", <<class_id, x1, y1, x2, y2>>) EXCEPT
                            !.ok = res.ok, !.ret = video_id,
                            !.existed = \E r \in Range(db_rectangles) : RectKey(r) = Values(args),
                            !.pre_len = IF current_frame_index \in DOMAIN rectangles
                                        THEN Len(rectangles[current_frame_index]) ELSE 0]
             /\ UNCHANGED <<ctl_vars, orphans, play_vars, db_projects, db_classes, db_videos, nav_vars, project_id,
                            video_id, video_name>>

(***************************************************************************)
(* The navigator: a project is selected, videos are opened and navigated.  *)
(***************************************************************************)
SeekArgs == -1..5
DecodeErrors == {"none", "seek", "decode"}

SetProject == \E p \in {None, 1} : set_project(p)
LoadVideo == \E f \in VideoFiles : load_video(f, FALSE)
Seek == \E i \in SeekArgs : seek(i, "none")
AdvanceFrame == advance_frame("none")
GetFrameByIndex == \E i \in SeekArgs, err \in DecodeErrors : get_frame_by_index(i, err)
TogglePlayback == toggle_playback

Next == SetProject \/ LoadVideo \/ Seek \/ AdvanceFrame \/ GetFrameByIndex \/ TogglePlayback
Spec == Init /\ [][Next]_vars

(***************************************************************************)
(* The navigator over a failing backend: every call that reaches the       *)
(* container may meet a container.seek or a decode that raises.            *)
(***************************************************************************)
FaultyFiles == {"a.mp4", "b.mp4"}

SetProjectF == set_project(1)
LoadVideoF == \E f \in FaultyFiles : load_video(f, FALSE)
SeekF == \E i \in SeekArgs, err \in DecodeErrors : seek(i, err)
AdvanceFrameF == \E err \in DecodeErrors : advance_frame(err)
GetFrameByIndexF == \E i \in SeekArgs, err \in DecodeErrors : get_frame_by_index(i, err)
TogglePlaybackF == toggle_playback

NextFaulty ==
    SetProjectF \/ LoadVideoF \/ SeekF \/ AdvanceFrameF \/ GetFrameByIndexF \/ TogglePlaybackF
SpecFaulty == Init /\ [][NextFaulty]_vars

(***************************************************************************)
(* The containers: videos are opened one after another, some of the loads  *)
(* fail at one of their steps, the application closes the model            *)
(* (main.py: model.cleanup()), and the runtime finalizes, at a time of its *)
(* own, a container that nothing holds any more.                           *)
(***************************************************************************)
HandleFiles == {"a.mp4", "b.mp4", "x.mp4", "n.mp4", "m.mp4", "e.mp4"}

model_cleanup ==
    /\ cleanup
    /\ last' = Call("cleanup", <<>>)
    /\ UNCHANGED <<ctl_vars, orphans, play_vars, db_vars, project_id, submitted>>

collect_garbage ==
    /\ \E c \in orphans : orphans' = orphans \ {c}
    /\ UNCHANGED <<ctl_vars, play_vars, db_vars, model_vars, last, submitted>>

SetProjectH == \E p \in {None, 1} : set_project(p)
LoadVideoH == \E f \in HandleFiles, db_error \in BOOLEAN : load_video(f, db_error)
ModelCleanup == model_cleanup
CollectGarbage == collect_garbage

NextHandles == SetProjectH \/ LoadVideoH \/ ModelCleanup \/ CollectGarbage
SpecHandles == Init /\ [][NextHandles]_vars

(***************************************************************************)
(* The annotation session: a project is selected, a.mp4 and c.mp4 are      *)
(* opened under it (one video row per file), frames are visited and        *)
(* rectangles are drawn on them.                                           *)
(***************************************************************************)
CacheProjects == {1}
CacheFiles == {"a.mp4", "c.mp4"}
CacheFrames == {0, 2}
ClassArgs == {None, 1}
BoxArgs == {<<10, 20, 110, 120>>, <<11, 20, 110, 120>>}

SetProjectC == \E p \in CacheProjects : set_project(p)
LoadVideoC == \E f \in CacheFiles : load_video(f, FALSE)
SeekC == \E i \in CacheFrames : seek(i, "none")
AddRectangle == \E c \in ClassArgs, b \in BoxArgs : add_rectangle(c, b[1], b[2], b[3], b[4])

NextCache == SetProjectC \/ LoadVideoC \/ SeekC \/ AddRectangle
SpecCache == Init /\ [][NextCache]_vars

(***************************************************************************)
(* The annotation session with the whole navigator: a.mp4 and b.mp4 (whose *)
(* metadata announces more frames than it holds) are opened, the           *)
(* user seeks (the slider and the frame list hand seek any index), steps,  *)
(* plays to the end, previews frames and draws rectangles on the frame     *)
(* shown.                                                                  *)
(***************************************************************************)
AnnotateFiles == {"a.mp4", "b.mp4"}
AnnotateSeekArgs == {-1, 2, 4}
AnnotateBox == <<10, 20, 110, 120>>

SetProjectA == set_project(1)
LoadVideoA == \E f \in AnnotateFiles : load_video(f, FALSE)
SeekA == \E i \in AnnotateSeekArgs : seek(i, "none")
AdvanceFrameA == advance_frame("none")
GetFrameByIndexA == \E i \in AnnotateSeekArgs : get_frame_by_index(i, "none")
AddRectangleA == add_rectangle(1, AnnotateBox[1], AnnotateBox[2], AnnotateBox[3], AnnotateBox[4])

NextAnnotate ==
    SetProjectA \/ LoadVideoA \/ SeekA \/ AdvanceFrameA \/ GetFrameByIndexA \/ AddRectangleA
SpecAnnotate == Init /\ [][NextAnnotate]_vars

(***************************************************************************)
(* VideoController._export_dataset: the class map (lines 357-367).         *)
(* Database.get_classes_for_project returns the project's class rows       *)
(* ORDER BY name; NameRank is the collation rank of the names in use.      *)
(***************************************************************************)
NameRank(name) ==
    CASE name = "car" -> 1 [] name = "dog" -> 2 [] name = "p" -> 3 [] name = "q" -> 4
      [] OTHER -> 5

RECURSIVE OrderByName(_)
OrderByName(S) ==
    IF S = {} THEN <<>>
    ELSE LET m == CHOOSE r \in S : \A o \in S : NameRank(r.name) <= NameRank(o.name)
         IN  <<m>> \o OrderByName(S \ {m})

\* the class rows in rowid order (a query without ORDER BY name)
get_classes_in_rowid_order(tbl, pid) == SelectSeq(tbl, LAMBDA r : r.project_id = pid)

get_classes_for_project(tbl, pid) == OrderByName({r \in Range(tbl) : r.project_id = pid})

\* {row['id']: index for index, row in enumerate(classes)}
class_id_to_yolo_index(classes) ==
    [id \in {classes[i].id : i \in 1..Len(classes)} |->
        (CHOOSE i \in 1..Len(classes) : classes[i].id = id) - 1]

\* [row['name'] for row in classes]
class_names_ordered(classes) == [i \in 1..Len(classes) |-> classes[i].name]

(***************************************************************************)
(* The label line of one rectangle (lines 463-487).  A normalized value    *)
(* is the fraction num / den (den > 0); a value printed with "%.6f" is     *)
(* kept as the integer number of millionths printed.  With image sizes     *)
(* that are no multiple of 64 no fraction lies exactly between two         *)
(* six-decimal numbers, so the printed value is the nearest one.           *)
(***************************************************************************)
SixDecimals == 1000000

\* a value written without max(0.0, min(1.0, v))
unclamped(num, den) == num

\* max(0.0, min(1.0, num / den)), as a numerator over den
clamp(num, den) == IF num > den THEN den ELSE IF num < 0 THEN 0 ELSE num

\* a value cut off after six decimals
format_6f_truncated(num, den) == (num * SixDecimals) \div den

\* f"{num / den:.6f}"
format_6f(num, den) == (2 * num * SixDecimals + den) \div (2 * den)

\* rect is <<class_id, x1, y1, x2, y2>>; the line is <<yolo_class_index,
\* norm_center_x, norm_center_y, norm_width, norm_height>>
yolo_line(class_map, rect, img_width, img_height) ==
    LET x1 == rect[2]
        y1 == rect[3]
        box_width == rect[4] - rect[2]
        box_height == rect[5] - rect[3]
    IN  <<class_map[rect[1]],
          format_6f(clamp(2 * x1 + box_width, 2 * img_width), 2 * img_width),
          format_6f(clamp(2 * y1 + box_height, 2 * img_height), 2 * img_height),
          format_6f(clamp(box_width, img_width), img_width),
          format_6f(clamp(box_height, img_height), img_height)>>

(***************************************************************************)
(* The train/valid split (lines 426-430).  random.shuffle leaves the list  *)
(* in one of its permutations: order.                                      *)
(***************************************************************************)
ShuffleOrders(S) ==
    {f \in [1..Cardinality(S) -> S] : \A i, j \in 1..Cardinality(S) : f[i] = f[j] => i = j}

\* a split index rounded up
split_index_rounded_up(n) == (n * 8 + 9) \div 10

\* int(len(labeled_frame_indices) * 0.8): the product is rounded to the nearest
\* double, which is the integer itself when n is a multiple of 5 and keeps its
\* integer part otherwise
split_index(n) == (n * 8) \div 10

train_indices(order) == SubSeq(order, 1, split_index(Len(order)))
valid_indices(order) == SubSeq(order, split_index(Len(order)) + 1, Len(order))

(***************************************************************************)
(* VideoController._export_dataset.  Its inputs from outside the program:  *)
(*   order  the order random.shuffle leaves the labeled frame indices in   *)
(*   fail   per frame index, what fails while the frame is processed:      *)
(*          "none"; "seek" / "decode" (the decoding backend raises inside  *)
(*          get_frame_by_index, which then returns None); "dims" (the      *)
(*          image has a non-positive size); "save_image" (to_image or the  *)
(*          image save raises); "save_label" (writing the label file       *)
(*          raises, after the image was saved)                             *)
(*   io     "ok", "mkdir" (os.makedirs raises OSError) or "yaml" (writing  *)
(*          data.yaml raises)                                              *)
(* A file is <<split, kind, video_name_base, frame_index>> -> content: an  *)
(* image holds <<ordinal of the decoded frame>>, a label file its lines.   *)
(* The call is recorded with these inputs and with what the final message  *)
(* reports (total, export_count, error_count).                             *)
(***************************************************************************)
FrameFailures == {"none", "seek", "decode", "dims", "save_image", "save_label"}
IoFailures == {"ok", "mkdir", "yaml"}

\* an export that gives up on any failure of the disk
export_aborts_on_any_failure(io) == io # "ok"

\* lines 389-397 return on the OSError of os.makedirs; lines 413-424 catch the
\* failure of the data.yaml write, warn and go on
export_aborts(io) == io = "mkdir"

\* Database.get_project_name
get_project_name(tbl, pid) ==
    IF \E r \in Range(tbl) : r.id = pid
    THEN (CHOOSE r \in Range(tbl) : r.id = pid).name
    ELSE ""

\* os.path.splitext(video_name)[0]
video_name_base(name) ==
    CASE name = "a.mp4" -> "a" [] name = "b.mp4" -> "b" [] name = "c.mp4" -> "c" [] OTHER -> name

\* a file name without the frame index
WriteFileSameName(fs, path, content) ==
    [q \in DOMAIN fs \cup {<<path[1], path[2], path[3], 0>>} |->
        IF q = <<path[1], path[2], path[3], 0>> THEN content ELSE fs[q]]

WriteFile(fs, path, content) ==
    [q \in DOMAIN fs \cup {path} |-> IF q = path THEN content ELSE fs[q]]

\* the rows of one frame, in the order the query returned them
rects_by_frame(all_rectangles, frame_index) ==
    SelectSeq(all_rectangles, LAMBDA r : r.frame_index = frame_index)

\* label lines written last row first
RECURSIVE yolo_lines_reversed(_, _, _, _)
yolo_lines_reversed(rows, class_map, img_width, img_height) ==
    IF rows = <<>> THEN <<>>
    ELSE LET rest == yolo_lines_reversed(Tail(rows), class_map, img_width, img_height)
         IN  IF Head(rows).class_id \notin DOMAIN class_map THEN rest
             ELSE rest \o <<yolo_line(class_map, RectTuple(Head(rows)), img_width, img_height)>>

\* the label lines of a frame: a rectangle whose class is not in the map is skipped
RECURSIVE yolo_lines(_, _, _, _)
yolo_lines(rows, class_map, img_width, img_height) ==
    IF rows = <<>> THEN <<>>
    ELSE LET rest == yolo_lines(Tail(rows), class_map, img_width, img_height)
         IN  IF Head(rows).class_id \notin DOMAIN class_map THEN rest
             ELSE <<yolo_line(class_map, RectTuple(Head(rows)), img_width, img_height)>> \o rest

\* an error in one frame ends the whole loop
process_frame_aborting(st, frame_index, split, err, all_rectangles, class_map, size) ==
    IF st.error_count > 0 \/ err # "none" THEN [st EXCEPT !.error_count = 1]
    ELSE [st EXCEPT !.export_count = @ + 1, !.visited = Append(@, frame_index)]

\* one pass of the loop body (lines 438-497); st is [files, export_count,
\* error_count, pos, visited]
process_frame(st, frame_index, split, err, all_rectangles, class_map, size) ==
    LET in_range == ~(container = "" \/ first_frame_pts = None
                      \/ frame_index < 0 \/ frame_index >= frame_count)
        backend == IF err \in {"seek", "decode"} THEN err ELSE "none"
        scan == get_frame_by_index_scan(frame_index, backend)
        av_frame == IF in_range THEN scan.ret ELSE None
        pos_after == IF in_range /\ backend # "seek" THEN scan.pos ELSE st.pos
        seen == [st EXCEPT !.pos = pos_after, !.visited = Append(@, frame_index)]
        failed == [seen EXCEPT !.error_count = @ + 1]
        base == video_name_base(video_name)
        with_image == WriteFile(seen.files, <<split, "images", base, frame_index>>, <<av_frame>>)
        lines == yolo_lines(rects_by_frame(all_rectangles, frame_index), class_map,
                            size[1], size[2])
    IN  IF av_frame = None THEN failed
        ELSE IF err = "dims" \/ size[1] <= 0 \/ size[2] <= 0 THEN failed
        ELSE IF err = "save_image" THEN failed
        ELSE IF err = "save_label" THEN [failed EXCEPT !.files = with_image]
        ELSE [seen EXCEPT !.files = WriteFile(with_image, <<split, "labels", base, frame_index>>,
                                              lines),
                          !.export_count = @ + 1]

\* the image size of a file's frames
ImageSize(f) == IF f = "c.mp4" THEN <<3, 200>> ELSE <<200, 200>>

export_dataset(order, fail, io) ==
    LET project_name == get_project_name(db_projects, project_id)
        classes == get_classes_for_project(db_classes, project_id)
        class_map == class_id_to_yolo_index(classes)
        all_rectangles == get_all_rectangles_for_video(db_rectangles, video_id)
        labeled_frame_indices == sorted({r.frame_index : r \in Range(all_rectangles)})
        train == train_indices(order)
        valid == valid_indices(order)
        RECURSIVE Loop(_, _)
        Loop(st, todo) ==
            IF todo = <<>> THEN st
            ELSE Loop(process_frame(st, Head(todo),
                                    IF \E i \in 1..Len(train) : train[i] = Head(todo)
                                    THEN "train" ELSE "valid",
                                    fail[Head(todo)], all_rectangles, class_map,
                                    ImageSize(container)),
                      Tail(todo))
        done == Loop([files |-> files, export_count |-> 0, error_count |-> 0, pos |-> pos,
                      visited |-> <<>>], train \o valid)
        called == [Call("export_dataset", <<>>) EXCEPT
                      !.pre_len = Cardinality(DOMAIN files)]
    IN  /\ order \in ShuffleOrders(Range(labeled_frame_indices))
        /\ DOMAIN fail = Range(labeled_frame_indices)
        /\ UNCHANGED <<db_vars, submitted, project_id, video_id, video_name, rectangles,
                       orphans, timer, container, frame_generator, current_frame, frame_count,
                       current_frame_index, is_playing, first_frame_pts, frame_duration,
                       is_training, training_process, log_queue, channel, log_timer>>
        /\ IF \/ project_id = None
              \/ video_id = None
              \/ project_name = ""
              \/ classes = <<>>
              \/ all_rectangles = <<>>
              \/ export_aborts(io)
           THEN /\ last' = [called EXCEPT !.out = [io |-> io]]
                /\ UNCHANGED <<files, manifest, pos>>
           ELSE /\ manifest' = IF io = "yaml" THEN manifest
                               ELSE [nc |-> Len(class_names_ordered(classes)),
                                     names |-> class_names_ordered(classes)]
                /\ files' = done.files
                /\ pos' = done.pos
                /\ last' = [called EXCEPT
                               !.ok = TRUE,
                               !.out = [io |-> io, order |-> order, fail |-> fail,
                                        total |-> Len(labeled_frame_indices),
                                        export_count |-> done.export_count,
                                        error_count |-> done.error_count,
                                        train |-> train, valid |-> valid,
                                        visited |-> done.visited,
                                        class_map |-> class_map]]

(***************************************************************************)
(* Exporting: the program is started on a store that earlier sessions      *)
(* filled (projects "p" and "q", classes, b.mp4 registered under project   *)
(* 1, rectangles drawn on it); the project is selected, the video opened   *)
(* and exported.  b.mp4 reports 5 frames and holds 3: frame 3 is labeled   *)
(* in some stores and cannot be retrieved.  The export explored is the one *)
(* into a dataset directory that holds no file yet.                        *)
(***************************************************************************)
MaxLabeled == 2         \* labeled frames of the video exported

RECURSIVE InsertClasses(_, _)
InsertClasses(tbl, todo) ==
    IF todo = <<>> THEN tbl
    ELSE InsertClasses(create_class_result(tbl, IntRaw(Head(todo)[1]), Head(todo)[2]).tbl,
                       Tail(todo))

RECURSIVE InsertRectangles(_, _)
InsertRectangles(tbl, todo) ==
    IF todo = <<>> THEN tbl
    ELSE InsertRectangles(save_rectangle_result(tbl, [k \in 1..7 |-> IntRaw(Head(todo)[k])]).tbl,
                          Tail(todo))

ExportClassLists ==
    {<<>>,
     <<<<1, "car">>>>,
     <<<<1, "dog">>, <<1, "car">>>>,
     <<<<1, "dog">>, <<2, "car">>>>}

\* <<video_id, frame_index, class_id, x1, y1, x2, y2>>, in the order drawn
ExportRectPool ==
    <<<<1, 1, 1, 11, 20, 110, 120>>,
      <<1, 1, 1, 10, 20, 110, 120>>,
      <<1, 0, 2, 150, 20, 450, 120>>,
      <<1, 2, 1, 10, 20, 110, 120>>,
      <<1, 3, 1, 10, 20, 110, 120>>>>

ExportRectLists ==
    {SelectSeq(ExportRectPool, LAMBDA t : t \in S) :
        S \in {T \in SUBSET Range(ExportRectPool) : Cardinality({t[2] : t \in T}) <= MaxLabeled}}

InitExport ==
    /\ db_projects = create_project_result(create_project_result(<<>>, "p").tbl, "q").tbl
    /\ db_classes \in {InsertClasses(<<>>, l) : l \in ExportClassLists}
    /\ db_videos = get_or_create_video_result(<<>>, IntRaw(1), "b.mp4",
                                              IntRaw(50), IntRaw(5)).tbl
    /\ db_rectangles \in {InsertRectangles(<<>>, l) : l \in ExportRectLists}
    /\ EmptyDatasets
    /\ Constructed

\* the backend or the disk fails on no frame, or on one frame of the export
FailureMaps(frames) ==
    {[i \in frames |-> "none"]} \cup
    {[i \in frames |-> IF i = j THEN k ELSE "none"] :
        j \in frames, k \in FrameFailures \ {"none"}}

SetProjectE == \E p \in {None, 1} : set_project(p)
LoadVideoE == load_video("b.mp4", FALSE)
ExportDataset ==
    \E order \in ShuffleOrders(StoreFrames(video_id)) :
        \E fail \in FailureMaps(StoreFrames(video_id)), io \in IoFailures :
            files = NoFiles /\ export_dataset(order, fail, io) /\ UNCHANGED gui

NextExport == SetProjectE \/ LoadVideoE \/ ExportDataset
SpecExport == InitExport /\ [][NextExport]_vars

(***************************************************************************)
(* Playback (video_controller.py, lines 231-294).  The handlers run on the *)
(* GUI thread, one at a time, each to its end; the exception is a handler  *)
(* that opens a modal message box: QMessageBox runs an event loop of its   *)
(* own, which delivers timer events while the handler waits.  gui is       *)
(* "idle" or names the message box that is open: "info" (the handler       *)
(* returns when it is dismissed), "export_warning" (_export_dataset, line  *)
(* 422: the frame loop follows) or "export_report" (_export_dataset, its   *)
(* last statement).  A modal box takes the user's input, so that of the    *)
(* user's actions only its dismissal is possible while it is open.         *)
(***************************************************************************)
\* a tick that advances whatever time has passed
tick_always_due(due) == TRUE

\* lines 276-279: the tick advances when the time since the last advance has
\* reached 1 / (frame_rate * speed); due is that comparison
tick_is_due(due) == due

\* VideoController._on_timer_timeout (the frame rate of every file is positive).
\* advance_frame emits playback_state_changed(False) when it stops playback,
\* and _on_playback_state_changed then stops the timer.
on_timer_timeout(due) ==
    /\ timer
    /\ UNCHANGED <<db_vars, orphans, ctl_vars, gui, submitted, project_id, video_id,
                   video_name, rectangles>>
    /\ IF video_id = None \/ ~is_playing
       THEN /\ timer' = FALSE
            /\ UNCHANGED nav_vars
            /\ last' = [Call("on_timer_timeout", <<due>>) EXCEPT
                           !.out = [advances |-> 0, gui |-> gui]]
       ELSE IF tick_is_due(due)
       THEN /\ Apply(advance_frame_outcome)
            /\ timer' = advance_frame_outcome.playing
            /\ last' = [Call("on_timer_timeout", <<due>>) EXCEPT
                           !.out = [advances |-> 1, gui |-> gui]]
       ELSE /\ UNCHANGED <<nav_vars, timer>>
            /\ last' = [Call("on_timer_timeout", <<due>>) EXCEPT
                           !.out = [advances |-> 0, gui |-> gui]]

\* VideoController.toggle_playback with _start_playback_timer and
\* _on_playback_state_changed
controller_toggle_playback ==
    /\ gui = "idle"
    /\ last' = Call("controller_toggle_playback", <<>>)
    /\ UNCHANGED <<db_vars, orphans, ctl_vars, submitted, project_id, video_id, video_name,
                   rectangles, container, pos, frame_generator, current_frame, frame_count,
                   current_frame_index, first_frame_pts, frame_duration>>
    /\ IF video_id = None
       THEN /\ gui' = "info"
            /\ UNCHANGED <<is_playing, timer>>
       ELSE /\ is_playing' = ~is_playing
            /\ timer' = ~is_playing
            /\ UNCHANGED gui

\* lines 343-373: the checks _export_dataset makes before it touches the disk
export_guards_pass ==
    /\ project_id # None
    /\ video_id # None
    /\ get_project_name(db_projects, project_id) # ""
    /\ get_classes_for_project(db_classes, project_id) # <<>>
    /\ get_all_rectangles_for_video(db_rectangles, video_id) # <<>>

\* _export_dataset up to the first message box it opens: the warning of a
\* failed data.yaml write (nothing was written yet), or else the box of its
\* last statement (an error of the checks, or the report)
export_clicked(order, fail, io) ==
    /\ gui = "idle"
    /\ IF io = "yaml" /\ export_guards_pass
       THEN /\ gui' = "export_warning"
            /\ last' = Call("export_clicked", <<>>)
            /\ UNCHANGED <<db_vars, model_vars, orphans, ctl_vars, timer, submitted>>
       ELSE /\ export_dataset(order, fail, io)
            /\ gui' = "export_report"

\* the warning is dismissed: _export_dataset goes on with the split and the
\* frame loop, up to its report
export_resumes(order, fail) ==
    /\ gui = "export_warning"
    /\ export_dataset(order, fail, "yaml")
    /\ gui' = "export_report"

\* the user dismisses a message box after which its handler returns
dismiss_dialog ==
    /\ gui \in {"info", "export_report"}
    /\ gui' = "idle"
    /\ last' = Call("dismiss_dialog", <<>>)
    /\ UNCHANGED <<db_vars, model_vars, orphans, ctl_vars, timer, submitted>>

(***************************************************************************)
(* A playback session: project "p" with class "car", a.mp4 registered and  *)
(* labeled on its frames 0 and 2 by an earlier session.                    *)
(***************************************************************************)
InitPlayback ==
    /\ db_projects = create_project_result(<<>>, "p").tbl
    /\ db_classes = InsertClasses(<<>>, <<<<1, "car">>>>)
    /\ db_videos = get_or_create_video_result(<<>>, IntRaw(1), "a.mp4",
                                              IntRaw(25), IntRaw(4)).tbl
    /\ db_rectangles = InsertRectangles(<<>>, <<<<1, 0, 1, 10, 20, 110, 120>>,
                                                <<1, 2, 1, 10, 20, 110, 120>>>>)
    /\ EmptyDatasets
    /\ Constructed

PlaybackSeekArgs == {0, 3}

SetProjectP == gui = "idle" /\ set_project(1)
LoadVideoP == gui = "idle" /\ load_video("a.mp4", FALSE)
SeekP == gui = "idle" /\ \E i \in PlaybackSeekArgs : seek(i, "none")
ControllerTogglePlayback == controller_toggle_playback
OnTimerTimeout == \E due \in BOOLEAN : on_timer_timeout(due)
ExportClicked ==
    \E order \in ShuffleOrders(StoreFrames(video_id)), io \in IoFailures :
        files = NoFiles /\ export_clicked(order, [i \in StoreFrames(video_id) |-> "none"], io)
ExportResumes ==
    \E order \in ShuffleOrders(StoreFrames(video_id)) :
        export_resumes(order, [i \in StoreFrames(video_id) |-> "none"])
DismissDialog == dismiss_dialog

NextPlayback ==
    \/ SetProjectP
    \/ LoadVideoP
    \/ SeekP
    \/ ControllerTogglePlayback
    \/ OnTimerTimeout
    \/ ExportClicked
    \/ ExportResumes
    \/ DismissDialog
SpecPlayback == InitPlayback /\ [][NextPlayback]_vars

(***************************************************************************)
(* Exporting again: the same store as above; a.mp4 is opened and exported  *)
(* any number of times into the dataset directory of project "p", which    *)
(* keeps what the earlier exports wrote (os.makedirs(exist_ok=True), no    *)
(* file is ever removed).  Each export shuffles anew.                      *)
(***************************************************************************)
SetProjectX == set_project(1)
LoadVideoX == load_video("a.mp4", FALSE)
ExportAgain ==
    \E order \in ShuffleOrders(StoreFrames(video_id)) :
        \E fail \in FailureMaps(StoreFrames(video_id)), io \in IoFailures :
            export_dataset(order, fail, io) /\ UNCHANGED gui

NextReexport == SetProjectX \/ LoadVideoX \/ ExportAgain
SpecReexport == InitPlayback /\ [][NextReexport]_vars

(***************************************************************************)
(* Training (video_controller.py, lines 511-608).  The trainer runs in a   *)
(* process of its own and talks to the controller through the queue: it    *)
(* puts progress lines and, at its end, one sentinel; it may also die      *)
(* without one.  training_process is "none" (no handle), "alive",          *)
(* "finishing" (alive, its sentinel already put) or "exited".  A progress  *)
(* message is one of ProgressTexts.  The entry point catches Exception     *)
(* only: an exception outside Exception (SystemExit, KeyboardInterrupt)    *)
(* ends the run without a sentinel, as a kill does.                        *)
(***************************************************************************)
MaxQueued == 3          \* messages waiting on the queue

ProgressTexts == {"epoch", "warning"}
RunEnds == {"finished", "base_exception", "killed"}
Messages == ProgressTexts \cup {"TRAINING_COMPLETE", "TRAINING_ERROR:"}
IsSentinel(msg) == msg \in {"TRAINING_COMPLETE", "TRAINING_ERROR:"}

model_and_files == <<db_vars, model_vars, orphans, play_vars, files, manifest, submitted>>

\* VideoController._start_training
start_training ==
    /\ last' = [Call("start_training", <<>>) EXCEPT
                   !.existed = is_training,
                   !.ok = /\ ~is_training
                          /\ project_id # None
                          /\ get_project_name(db_projects, project_id) # ""
                          /\ manifest # NoManifest]
    /\ UNCHANGED model_and_files
    /\ IF \/ is_training
          \/ project_id = None
          \/ get_project_name(db_projects, project_id) = ""
          \/ manifest = NoManifest
       THEN UNCHANGED <<is_training, training_process, log_queue, channel, log_timer>>
       ELSE /\ log_queue' = TRUE
            /\ channel' = <<>>
            /\ training_process' = "alive"
            /\ log_timer' = TRUE
            /\ is_training' = TRUE

\* run_training_entry_point puts a progress line
trainer_puts_line(text) ==
    /\ training_process = "alive"
    /\ log_queue
    /\ Len(channel) < MaxQueued
    /\ channel' = Append(channel, text)
    /\ last' = Call("trainer_puts_line", <<text>>)
    /\ UNCHANGED <<model_and_files, is_training, training_process, log_queue, log_timer>>

\* run_training_entry_point reaches its end and puts its sentinel
trainer_puts_sentinel(msg) ==
    /\ training_process = "alive"
    /\ log_queue
    /\ Len(channel) < MaxQueued
    /\ channel' = Append(channel, msg)
    /\ training_process' = "finishing"
    /\ last' = Call("trainer_puts_sentinel", <<msg>>)
    /\ UNCHANGED <<model_and_files, is_training, log_queue, log_timer>>

\* the training process ends: "finished" after its sentinel (the return of
\* line 124 or the sys.exit(1) of line 130), "base_exception" by an exception
\* that line 126 does not catch, "killed" by a signal or a crash at any point
trainer_exits(how) ==
    /\ training_process \in {"alive", "finishing"}
    /\ how = "finished" => training_process = "finishing"
    /\ how = "base_exception" => training_process = "alive"
    /\ training_process' = "exited"
    /\ last' = Call("trainer_exits", <<how>>)
    /\ UNCHANGED <<model_and_files, is_training, log_queue, channel, log_timer>>

\* a _training_finished that leaves the poll timer running
training_finished_still_polling ==
    /\ is_training' = FALSE
    /\ training_process' = "none"
    /\ log_queue' = FALSE
    /\ channel' = <<>>
    /\ UNCHANGED log_timer

\* VideoController._training_finished: the controller state it leaves.
\* terminate() ends a process that is still alive (SIGTERM at its default
\* disposition) before join(5.0) gives up, so no process outlives its handle.
training_finished ==
    /\ is_training' = FALSE
    /\ training_process' = "none"
    /\ log_queue' = FALSE
    /\ channel' = <<>>
    /\ log_timer' = FALSE

\* a stop_training without its guard: terminate() is called on whatever is held
stop_training_unguarded ==
    /\ last' = [Call("stop_training", <<>>) EXCEPT
                   !.existed = is_training,
                   !.raised = training_process = "none",
                   !.out = <<training_process>>]
    /\ UNCHANGED model_and_files
    /\ IF training_process = "none"
       THEN UNCHANGED <<is_training, training_process, log_queue, channel, log_timer>>
       ELSE training_finished

\* VideoController.stop_training: terminate() on a process that has exited is
\* a no-op of multiprocessing
stop_training ==
    /\ last' = [Call("stop_training", <<>>) EXCEPT
                   !.existed = is_training,
                   !.out = <<training_process>>]
    /\ UNCHANGED model_and_files
    /\ IF is_training /\ training_process # "none"
       THEN training_finished
       ELSE UNCHANGED <<is_training, training_process, log_queue, channel, log_timer>>

\* VideoController._process_log_queue, on a tick of the log timer.  The
\* messages are read in order; a sentinel calls _training_finished, which
\* releases the queue, and the loop condition self.log_queue.empty() then
\* raises AttributeError on None.
FirstSentinel(q) ==
    IF \E i \in 1..Len(q) : IsSentinel(q[i])
    THEN SetMin({i \in 1..Len(q) : IsSentinel(q[i])})
    ELSE 0

process_log_queue ==
    /\ log_timer
    /\ UNCHANGED model_and_files
    /\ IF ~log_queue
       THEN /\ last' = Call("process_log_queue", <<>>)
            /\ UNCHANGED <<is_training, training_process, log_queue, channel, log_timer>>
       ELSE IF FirstSentinel(channel) = 0
       THEN /\ last' = [Call("process_log_queue", <<>>) EXCEPT
                           !.out = <<channel, "none">>]
            /\ channel' = <<>>
            /\ UNCHANGED <<is_training, training_process, log_queue, log_timer>>
       ELSE /\ last' = [Call("process_log_queue", <<>>) EXCEPT
                           !.raised = TRUE,
                           !.out = <<SubSeq(channel, 1, FirstSentinel(channel) - 1),
                                     channel[FirstSentinel(channel)]>>]
            /\ training_finished

(***************************************************************************)
(* A training session: project "p" exists, a dataset may have been         *)
(* exported for it (data.yaml present) in an earlier run of the program.   *)
(***************************************************************************)
InitTrain ==
    /\ db_projects = create_project_result(<<>>, "p").tbl
    /\ db_classes = <<>>
    /\ db_videos = <<>>
    /\ db_rectangles = <<>>
    /\ files = NoFiles
    /\ manifest \in {NoManifest, [nc |-> 1, names |-> <<"car">>]}
    /\ Constructed

SetProjectT == \E p \in {None, 1} : set_project(p)
StartTraining == start_training
TrainerPutsLine == \E text \in ProgressTexts : trainer_puts_line(text)
TrainerPutsSentinel == \E msg \in {"TRAINING_COMPLETE", "TRAINING_ERROR:"} : trainer_puts_sentinel(msg)
TrainerExits == \E how \in RunEnds : trainer_exits(how)
ProcessLogQueue == process_log_queue
StopTraining == stop_training

NextTrain ==
    \/ SetProjectT
    \/ StartTraining
    \/ TrainerPutsLine
    \/ TrainerPutsSentinel
    \/ TrainerExits
    \/ ProcessLogQueue
    \/ StopTraining
SpecTrain == InitTrain /\ [][NextTrain]_vars

\* the poll timer keeps firing: log_timer is a repeating QTimer, and while it
\* runs the event loop calls _process_log_queue every 100 ms.  The user's
\* actions and the trainer's steps are under no obligation.
SpecTrainLive == InitTrain /\ [][NextTrain]_vars /\ WF_vars(ProcessLogQueue)

(***************************************************************************)
(* The label line on its own: rectangles, image sizes and class lists      *)
(* drawn from small sets.                                                  *)
(***************************************************************************)
LabelXs == {-10, 1, 3, 10, 110, 450}
LabelYs == {-20, 20, 120}
LabelSizes == {<<200, 200>>, <<3, 200>>}
LabelClassLists ==
    {<<[id |-> 1, name |-> "car"]>>,
     <<[id |-> 2, name |-> "car"], [id |-> 1, name |-> "dog"]>>}

label_line(classes, rect, size) ==
    /\ rect[1] \in DOMAIN class_id_to_yolo_index(classes)
    /\ last' = [Call("yolo_line", <<classes, rect, size[1], size[2]>>) EXCEPT
                   !.out = yolo_line(class_id_to_yolo_index(classes), rect, size[1], size[2])]
    /\ UNCHANGED <<db_vars, model_vars, orphans, ctl_vars, play_vars, submitted>>

LabelLine ==
    \E classes \in LabelClassLists, c \in {1, 2}, x1 \in LabelXs, x2 \in LabelXs,
       y1 \in LabelYs, y2 \in LabelYs, size \in LabelSizes :
        label_line(classes, <<c, x1, y1, x2, y2>>, size)

SpecLabel == Init /\ [][LabelLine]_vars

(***************************************************************************)
(* The split on its own: every shuffle order of up to MaxShuffled labeled  *)
(* frames, and the first and the reversed order of up to MaxSplitFrames.   *)
(***************************************************************************)
MaxShuffled == 5
MaxSplitFrames == 10

Reverse(l) == [i \in 1..Len(l) |-> l[Len(l) + 1 - i]]

split_frames(order) ==
    /\ last' = [Call("split", <<order>>) EXCEPT
                   !.out = <<train_indices(order), valid_indices(order)>>]
    /\ UNCHANGED <<db_vars, model_vars, orphans, ctl_vars, play_vars, submitted>>

SplitShuffled ==
    \E labeled \in SUBSET (0..(MaxShuffled - 1)) :
        \E order \in ShuffleOrders(labeled) : split_frames(order)

SplitLong ==
    \E n \in 1..MaxSplitFrames :
        \E order \in {sorted(0..(n - 1)), Reverse(sorted(0..(n - 1)))} : split_frames(order)

NextSplit == SplitShuffled \/ SplitLong
SpecSplit == Init /\ [][NextSplit]_vars

(***************************************************************************)
(*                         Properties: the navigator                       *)
(***************************************************************************)
Loaded == container # ""

\* the frames of f are spaced by exactly the frame_duration load_video derives
ExactStream(f) ==
    \A k \in 0..(RealLen(f) - 1) : FramePts(f, k) = FramePts(f, 0) + k * FrameDuration(f)

C2_GetFrameKeepsIndex ==
    [][last'.op = "get_frame_by_index" => current_frame_index' = current_frame_index]_vars

\* C2 witness: a get_frame_by_index that returned a frame other than the
\* current one and moved the container on
C2_Witness ==
    /\ last.op = "get_frame_by_index"
    /\ last.ok
    /\ last.ret # current_frame
    /\ last.arg[1] # current_frame_index
    /\ pos # current_frame + 1

\* C3: after get_frame_by_index returns, the decode position is the one in
\* effect before the call: the next advance_frame makes current the frame that
\* immediately follows the frame that was current (when the stream and
\* frame_count hold such a frame).  Stated for calls the backend did not fail.
C3_PositionRestored ==
    [][(/\ last.op = "get_frame_by_index"
        /\ ~last.raised
        /\ last'.op = "advance_frame"
        /\ Loaded
        /\ current_frame + 1 < RealLen(container)
        /\ current_frame_index + 1 < frame_count)
       => current_frame' = current_frame + 1]_vars

(***************************************************************************)
(*                         Properties: the store                           *)
(***************************************************************************)
RectRowsUnique ==
    \A i, j \in 1..Len(db_rectangles) :
        RectKey(db_rectangles[i]) = RectKey(db_rectangles[j]) => i = j

\* C4: after any sequence of save_rectangle calls the store holds exactly one
\* row per distinct tuple submitted (the tuple of the arguments' canonical
\* integer values); a call returns True iff no row with the identical tuple
\* existed before it (so a repeated call returns False and adds nothing, and a
\* tuple that differs in one field is accepted).
C4_SaveRectangleOncePerTuple ==
    /\ RectRowsUnique
    /\ {RectKey(r) : r \in Range(db_rectangles)} = submitted.rects
    /\ (last.op = "save_rectangle" /\ Coercible(last.arg)) => (last.ok <=> ~last.existed)

\* C4 witness: an off-by-one rectangle was accepted beside the first one, and
\* a repeated identical call was then answered False
C4_Witness ==
    /\ last.op = "save_rectangle"
    /\ \A k \in 1..7 : last.arg[k].t = "int"
    /\ last.existed
    /\ ~last.ok
    /\ Len(db_rectangles) = 2
    /\ db_rectangles[1].x1 + 1 = db_rectangles[2].x1

VideoRowsUnique ==
    \A i, j \in 1..Len(db_videos) :
        VideoKey(db_videos[i]) = VideoKey(db_videos[j]) => i = j

WellTypedVideoCall(c) ==
    /\ c.op = "get_or_create_video"
    /\ ~int_raises(c.arg[1])
    /\ ~float_raises(c.arg[3])
    /\ ~int_raises(c.arg[4])

\* C5: after any sequence of get_or_create_video calls there is exactly one
\* video row per distinct (project_id, name) requested and every call returns
\* that row's id; a call for an existing (project_id, name) with other
\* fps/frame_count creates no row and changes no stored row; the same name
\* under another project_id has a row, and so an id, of its own.
C5_GetOrCreateVideoIdempotent ==
    [][/\ VideoRowsUnique'
       /\ {VideoKey(r) : r \in Range(db_videos')} = submitted'.videos
       /\ \A i \in 1..Len(db_videos) : i <= Len(db_videos') /\ db_videos'[i] = db_videos[i]
       /\ WellTypedVideoCall(last') =>
            /\ \E r \in Range(db_videos') :
                   /\ VideoKey(r) = <<int(last'.arg[1]), last'.arg[2]>>
                   /\ r.id = last'.ret
            /\ last'.existed => db_videos' = db_videos]_vars

\* C5 witness: a.mp4 is registered under projects 1 and 2 with different ids,
\* and a call for (1, a.mp4) with another fps and frame count got id 1 back
C5_Witness ==
    /\ WellTypedVideoCall(last)
    /\ last.existed
    /\ last.ret = 1
    /\ Len(db_videos) = 2
    /\ db_videos[1].name = db_videos[2].name
    /\ db_videos[1].project_id # db_videos[2].project_id
    /\ db_videos[1].fps # float(last.arg[3])
    /\ db_videos[1].frame_count # int(last.arg[4])

ProjectRowsUnique ==
    \A i, j \in 1..Len(db_projects) : db_projects[i].name = db_projects[j].name => i = j

\* C6: create_project with a name that exists returns the existing row's id,
\* inserts nothing and does not raise; after any sequence of create_project
\* calls there is exactly one project row per distinct name.
C6_CreateProjectReturnsExisting ==
    [][/\ ProjectRowsUnique'
       /\ {r.name : r \in Range(db_projects')} = submitted'.projects
       /\ (last'.op = "create_project" /\ last'.existed) =>
            /\ db_projects' = db_projects
            /\ ~last'.raised
            /\ \E r \in Range(db_projects) : r.name = last'.arg[1] /\ r.id = last'.ret]_vars

\* C6 witness: two projects exist and the first one's name was submitted again
C6_Witness ==
    /\ last.op = "create_project"
    /\ last.existed
    /\ Len(db_projects) = 2
    /\ last.arg[1] = db_projects[1].name
    /\ last.ret = db_projects[1].id

ClassRowsUnique ==
    \A i, j \in 1..Len(db_classes) :
        ClassKey(db_classes[i]) = ClassKey(db_classes[j]) => i = j

\* C7: create_class with a (project_id, name) that exists returns the existing
\* row's id and inserts nothing; the same name under another project_id
\* creates a new row with an id of its own; after any sequence of calls there
\* is exactly one class row per distinct (project_id, name).
C7_CreateClassPerProject ==
    [][/\ ClassRowsUnique'
       /\ {ClassKey(r) : r \in Range(db_classes')} = submitted'.classes
       /\ (last'.op = "create_class" /\ ~int_raises(last'.arg[1])) =>
            /\ \E r \in Range(db_classes') :
                   /\ ClassKey(r) = <<int(last'.arg[1]), last'.arg[2]>>
                   /\ r.id = last'.ret
            /\ last'.existed => db_classes' = db_classes
            /\ ~last'.existed => Len(db_classes') = Len(db_classes) + 1]_vars

\* C7 witness: "car" exists under two projects with different ids, and a
\* repeated create_class for one of them returned its id
C7_Witness ==
    /\ last.op = "create_class"
    /\ last.existed
    /\ Len(db_classes) = 2
    /\ db_classes[1].name = db_classes[2].name
    /\ db_classes[1].project_id # db_classes[2].project_id
    /\ last.ret = 2

(***************************************************************************)
(*                         Properties: the rectangle cache                 *)
(***************************************************************************)

\* C8 as claimed: with a video loaded, the cache equals what a fresh reload
\* from the store would produce (for every frame the same list of rectangles).
C8_CacheEqualsReload ==
    video_id # None => rectangles = _load_rectangles_from_db(db_rectangles, video_id)

\* C8 as amended: with a video loaded, the cache has an entry for exactly the
\* frames the store has rectangles for, and for every such frame the
\* rectangles occurring in the cache list are exactly those the store holds
\* for that video and frame (the list may repeat one and may be in another
\* order than a reload gives).
C8_CacheHoldsStoreRectangles ==
    video_id # None =>
        /\ DOMAIN rectangles = StoreFrames(video_id)
        /\ \A fi \in DOMAIN rectangles : Range(rectangles[fi]) = StoreRects(video_id, fi)

\* C8 witness: a rectangle was drawn twice on a frame; the cache lists it
\* twice, the store holds it once
C8_Witness ==
    /\ video_id # None
    /\ \E fi \in DOMAIN rectangles :
           /\ Len(rectangles[fi]) = 2
           /\ rectangles[fi][1] = rectangles[fi][2]
           /\ Cardinality(StoreRects(video_id, fi)) = 1

\* C9: add_rectangle with a video loaded and a class selected appends
\* (class_id, x1, y1, x2, y2) to the cache list of the current frame index and
\* hands the same tuple to save_rectangle; the entry stays also when the store
\* answers "not saved", so the list grows by one on every call.
C9_AddRectangleAppends ==
    (last.op = "add_rectangle" /\ last.ret # None) =>
        /\ current_frame_index \in DOMAIN rectangles
        /\ Len(rectangles[current_frame_index]) = last.pre_len + 1
        /\ rectangles[current_frame_index][last.pre_len + 1] = last.arg
        /\ <<video_id, current_frame_index>> \o last.arg \in submitted.rects
        /\ last.arg \in StoreRects(video_id, current_frame_index)

\* C9 witness: the store answered "not saved" for a rectangle it already held,
\* and the cache list of the frame grew from one entry to two
C9_Witness ==
    /\ last.op = "add_rectangle"
    /\ last.ret # None
    /\ last.existed
    /\ ~last.ok
    /\ last.pre_len = 1
    /\ Len(rectangles[current_frame_index]) = 2

\* C10: get_frames_with_rectangles is a strictly increasing list that holds
\* frame index f iff the cache holds at least one rectangle for f; no cache
\* key maps to an empty list.
C10_LabeledFramesSorted ==
    LET frames == get_frames_with_rectangles IN
    /\ \A i \in 1..(Len(frames) - 1) : frames[i] < frames[i + 1]
    /\ \A f \in Range(frames) \cup DOMAIN rectangles :
           f \in Range(frames) <=> (f \in DOMAIN rectangles /\ Len(rectangles[f]) >= 1)
    /\ \A f \in DOMAIN rectangles : Len(rectangles[f]) >= 1

\* C10 witness: frame 2 was labeled first and frame 0 after it; the list is <<0, 2>>
C10_Witness ==
    /\ last.op = "add_rectangle"
    /\ last.ret # None
    /\ current_frame_index = 0
    /\ last.pre_len = 0
    /\ get_frames_with_rectangles = <<0, 2>>

\* the rectangles the store holds for a video and frame, in insertion (rowid) order
StoreRectsInserted(vid, fi) ==
    LET rows == SelectSeq(db_rectangles, LAMBDA r : r.video_id = vid /\ r.frame_index = fi)
    IN  [i \in 1..Len(rows) |-> RectTuple(rows[i])]

\* C11 as claimed: after a successful load_video the cache holds exactly the
\* loaded video's stored rectangles grouped by frame index, the rectangles of
\* each frame in store insertion order; after set_project the cache is empty.
C11_CacheRebuiltInsertionOrder ==
    /\ (last.op = "load_video" /\ last.ok) =>
          /\ DOMAIN rectangles = StoreFrames(video_id)
          /\ \A fi \in DOMAIN rectangles : rectangles[fi] = StoreRectsInserted(video_id, fi)
    /\ last.op = "set_project" => rectangles = EmptyCache

\* (class_id, x1, y1, x2, y2) compared field by field, the first difference decides
TupleLess(a, b) ==
    \E i \in 1..5 : a[i] < b[i] /\ \A j \in 1..(i - 1) : a[j] = b[j]

\* C11 as amended: after a successful load_video the cache has an entry for
\* exactly the frames the store has rectangles of the loaded video for, each
\* frame's list holds every stored rectangle of that video and frame exactly
\* once and nothing else (no entry of the session before, no rectangle of
\* another video), and the list is in the order of the store's unique index
\* (ascending by class_id, x1, y1, x2, y2), not in insertion order; after
\* set_project the cache is empty.
C11_CacheRebuiltIndexOrder ==
    /\ (last.op = "load_video" /\ last.ok) =>
          /\ DOMAIN rectangles = StoreFrames(video_id)
          /\ \A fi \in DOMAIN rectangles :
                 /\ Range(rectangles[fi]) = StoreRects(video_id, fi)
                 /\ \A i \in 1..(Len(rectangles[fi]) - 1) :
                        TupleLess(rectangles[fi][i], rectangles[fi][i + 1])
    /\ last.op = "set_project" => rectangles = EmptyCache

\* C11 witness: a video was reloaded whose frame holds two rectangles, the one
\* inserted second sorting before the one inserted first
C11_Witness ==
    /\ last.op = "load_video"
    /\ last.ok
    /\ \E fi \in DOMAIN rectangles :
           /\ Len(rectangles[fi]) = 2
           /\ StoreRectsInserted(video_id, fi) = <<rectangles[fi][2], rectangles[fi][1]>>

(***************************************************************************)
(*                         Properties: the export                          *)
(***************************************************************************)
\* the four normalized values of a label line as fractions, in the line's order
LineFractions(rect, w, h) ==
    <<[n |-> 2 * rect[2] + (rect[4] - rect[2]), d |-> 2 * w],
      [n |-> 2 * rect[3] + (rect[5] - rect[3]), d |-> 2 * h],
      [n |-> rect[4] - rect[2], d |-> w],
      [n |-> rect[5] - rect[3], d |-> h]>>

Abs(x) == IF x < 0 THEN -x ELSE x

\* v millionths is the fraction q written with six decimals
IsSixDecimalsOf(v, q) == 2 * Abs(v * q.d - q.n * SixDecimals) <= q.d

\* position - 1 of the class with this id in the class list
IndexInList(classes, id) == (CHOOSE i \in 1..Len(classes) : classes[i].id = id) - 1

\* C13 as claimed: the label line of a stored rectangle whose class is in the
\* index map is the class index followed by center-x, center-y, width and
\* height divided by the image width/height, each with six decimals.
C13_LabelLineIsNormalizedBox ==
    last.op = "yolo_line" =>
        LET q == LineFractions(last.arg[2], last.arg[3], last.arg[4]) IN
        /\ last.out[1] = IndexInList(last.arg[1], last.arg[2][1])
        /\ \A k \in 1..4 : IsSixDecimalsOf(last.out[k + 1], q[k])

\* C13 as amended: the label line is the class index followed by the four
\* normalized values, each clamped to [0,1] before it is written with six
\* decimals: a value within [0,1] is written as it is, a value above 1 as
\* 1.000000 and a value below 0 as 0.000000; (10,20,110,120) on 200x200 with
\* the first class gives "0 0.300000 0.350000 0.500000 0.500000".
C13_LabelLineIsClampedBox ==
    last.op = "yolo_line" =>
        LET q == LineFractions(last.arg[2], last.arg[3], last.arg[4]) IN
        /\ last.out[1] = IndexInList(last.arg[1], last.arg[2][1])
        /\ \A k \in 1..4 :
               /\ (q[k].n >= 0 /\ q[k].n <= q[k].d) => IsSixDecimalsOf(last.out[k + 1], q[k])
               /\ q[k].n > q[k].d => last.out[k + 1] = SixDecimals
               /\ q[k].n < 0 => last.out[k + 1] = 0
        /\ (/\ IndexInList(last.arg[1], last.arg[2][1]) = 0
            /\ Tail(last.arg[2]) = <<10, 20, 110, 120>>
            /\ last.arg[3] = 200
            /\ last.arg[4] = 200)
           => last.out = <<0, 300000, 350000, 500000, 500000>>

\* C13 witness: the box (10,20,110,120) of the first class on a 200x200 image
C13_Witness ==
    /\ last.op = "yolo_line"
    /\ last.arg[2] = <<1, 10, 20, 110, 120>>
    /\ last.arg[3] = 200
    /\ last.arg[4] = 200
    /\ last.out = <<0, 300000, 350000, 500000, 500000>>

\* C14: every normalized value of a label line lies in [0,1], whatever the
\* stored integer coordinates (past the image, negative, x2 < x1); a value
\* that would exceed 1 is written as exactly 1.000000, a negative one as
\* 0.000000.
C14_NormalizedValuesClamped ==
    last.op = "yolo_line" =>
        LET q == LineFractions(last.arg[2], last.arg[3], last.arg[4]) IN
        \A k \in 1..4 :
            /\ last.out[k + 1] \in 0..SixDecimals
            /\ q[k].n > q[k].d => last.out[k + 1] = SixDecimals
            /\ q[k].n < 0 => last.out[k + 1] = 0

\* C14 witness: a rectangle with x2 < x1 that starts right of the image and
\* above it: its width is negative and its center-x exceeds 1
C14_Witness ==
    /\ last.op = "yolo_line"
    /\ last.arg[2][4] < last.arg[2][2]
    /\ last.arg[2][3] < 0
    /\ 2 * last.arg[2][2] + (last.arg[2][4] - last.arg[2][2]) > 2 * last.arg[3]
    /\ last.out[2] = SixDecimals
    /\ last.out[4] = 0

\* C15: for every number N >= 1 of labeled frames and every shuffle order the
\* train and valid lists are disjoint, their union is the set of labeled frame
\* indices, no index is listed twice, the train list has floor(0.8 * N)
\* entries and the valid list the other N - floor(0.8 * N); 10 frames give 8
\* and 2.
C15_SplitCounts ==
    (last.op = "split" /\ Len(last.arg[1]) >= 1) =>
        LET n == Len(last.arg[1])
            train == last.out[1]
            valid == last.out[2]
        IN  /\ Range(train) \cap Range(valid) = {}
            /\ Range(train) \cup Range(valid) = Range(last.arg[1])
            /\ Cardinality(Range(train)) = Len(train)
            /\ Cardinality(Range(valid)) = Len(valid)
            /\ 5 * Len(train) <= 4 * n
            /\ 4 * n < 5 * (Len(train) + 1)
            /\ Len(valid) = n - Len(train)
            /\ n = 10 => (Len(train) = 8 /\ Len(valid) = 2)

\* C15 witness: ten labeled frames, shuffled into the reversed order
C15_Witness ==
    /\ last.op = "split"
    /\ Len(last.arg[1]) = 10
    /\ last.arg[1][1] = 9
    /\ Len(last.out[1]) = 8
    /\ Len(last.out[2]) = 2

\* an export that ran through its loop
Exported == last.op = "export_dataset" /\ last.ok

\* get_frame_by_index finds frame i when the backend does not fail
Retrievable(i) ==
    /\ i \in 0..(frame_count - 1)
    /\ ScanForward(container, ContainerSeek(container, TargetPts(i)), TargetPts(i)) # None

Splits == {"train", "valid"}
HasPair(split, i) ==
    /\ <<split, "images", "b", i>> \in DOMAIN files
    /\ <<split, "labels", "b", i>> \in DOMAIN files

ProjectClasses == {r \in Range(db_classes) : r.project_id = project_id}

\* C12: an export of a video with N labeled frames, all of which can be
\* retrieved, into an empty dataset directory, with no failure of the disk or
\* the backend, writes exactly N image files and N label files, one
\* image/label pair per labeled frame index, each pair in exactly one of train
\* and valid; the manifest's class count is the number of classes of the
\* project; N exported frames and no errors are reported.
C12_ExportWritesOnePairPerFrame ==
    (/\ Exported
     /\ last.pre_len = 0
     /\ last.out.io = "ok"
     /\ \A i \in StoreFrames(video_id) : Retrievable(i) /\ last.out.fail[i] = "none")
    => LET n == Cardinality(StoreFrames(video_id)) IN
       /\ Cardinality({q \in DOMAIN files : q[2] = "images"}) = n
       /\ Cardinality({q \in DOMAIN files : q[2] = "labels"}) = n
       /\ \A i \in StoreFrames(video_id) :
              Cardinality({sp \in Splits : HasPair(sp, i)}) = 1
       /\ manifest # NoManifest
       /\ manifest.nc = Cardinality(ProjectClasses)
       /\ last.out.total = n
       /\ last.out.export_count = n
       /\ last.out.error_count = 0

\* C12 witness: two labeled frames went one to train and one to valid
C12_Witness ==
    /\ Exported
    /\ last.pre_len = 0
    /\ last.out.io = "ok"
    /\ last.out.export_count = 2
    /\ last.out.error_count = 0
    /\ \E i, j \in StoreFrames(video_id) : HasPair("train", i) /\ HasPair("valid", j)

\* C16: the export's class-id-to-index map is a bijection from the ids of the
\* project's classes onto 0..n-1 that follows the order of the list
\* get_classes_for_project returns (the classes by name); the manifest's k-th
\* class name is the name of the class mapped to index k; the label written
\* for a box is this index.
C16_ClassIndexMap ==
    (Exported /\ last.out.io = "ok") =>
        LET map == last.out.class_map
            n == Cardinality(ProjectClasses)
        IN  /\ DOMAIN map = {r.id : r \in ProjectClasses}
            /\ {map[id] : id \in DOMAIN map} = 0..(n - 1)
            /\ \A r1, r2 \in ProjectClasses :
                   NameRank(r1.name) < NameRank(r2.name) => map[r1.id] < map[r2.id]
            /\ Len(manifest.names) = n
            /\ \A r \in ProjectClasses : manifest.names[map[r.id] + 1] = r.name
            /\ \A q \in DOMAIN files :
                   q[2] = "labels" =>
                       {files[q][k][1] : k \in 1..Len(files[q])} =
                       {map[t[1]] : t \in {u \in StoreRects(video_id, q[4]) : u[1] \in DOMAIN map}}

\* C16 witness: the class created first sorts second by name, so class id 1
\* has index 1 and class id 2 index 0, and a box of class 2 was written as 0
C16_Witness ==
    /\ Exported
    /\ last.out.io = "ok"
    /\ last.out.class_map = (1 :> 1) @@ (2 :> 0)
    /\ \E q \in DOMAIN files :
           /\ q[2] = "labels"
           /\ \E t \in StoreRects(video_id, q[4]) : t[1] = 2
           /\ \E k \in 1..Len(files[q]) : files[q][k][1] = 0

\* C17: a per-frame failure (no frame retrieved, non-positive image size, an
\* error while saving) never aborts the batch: every labeled frame index is
\* visited exactly once and counted exactly once, so exported count + error
\* count is the total number of labeled frames.
C17_FailuresDoNotAbort ==
    Exported =>
        /\ Range(last.out.visited) = StoreFrames(video_id)
        /\ Len(last.out.visited) = Cardinality(StoreFrames(video_id))
        /\ last.out.total = Cardinality(StoreFrames(video_id))
        /\ last.out.export_count + last.out.error_count = last.out.total
        /\ last.out.error_count >=
               Cardinality({i \in StoreFrames(video_id) :
                               last.out.fail[i] # "none" \/ ~Retrievable(i)})

\* C17 witness: the frame processed first failed and the one after it was exported
C17_Witness ==
    /\ Exported
    /\ Len(last.out.visited) = 2
    /\ last.out.fail[last.out.visited[1]] # "none"
    /\ last.out.error_count = 1
    /\ last.out.export_count = 1
    /\ \E sp \in Splits : HasPair(sp, last.out.visited[2])

(***************************************************************************)
(*                         Properties: training                            *)
(***************************************************************************)
training_vars == <<is_training, training_process, log_queue, channel, log_timer>>

\* C18: stop_training is idempotent: called when no training is running,
\* twice in a row, or after the training process has exited it is a no-op or
\* completes without error; after any stop_training the controller is in the
\* not-training state, with no process handle and no log queue.
C18_StopTrainingIdempotent ==
    [][last'.op = "stop_training" =>
          /\ ~last'.raised
          /\ ~is_training'
          /\ training_process' = "none"
          /\ ~log_queue'
          /\ ~is_training => training_vars' = training_vars
          /\ last.op = "stop_training" => training_vars' = training_vars]_vars

\* C18 witness: training was stopped after its process had exited on its own
C18_Witness ==
    /\ last.op = "stop_training"
    /\ last.existed
    /\ last.out = <<"exited">>
    /\ ~last.raised
    /\ ~is_training
    /\ training_process = "none"
    /\ ~log_queue

(***************************************************************************)
(*                         Properties: referential integrity, playback     *)
(***************************************************************************)
\* C19: after any sequence of store operations every class row and every
\* video row references an existing project, and every rectangle row
\* references an existing video and an existing class that belongs to that
\* video's project.
C19_ReferentialIntegrity ==
    /\ \A c \in Range(db_classes) : \E pr \in Range(db_projects) : pr.id = c.project_id
    /\ \A v \in Range(db_videos) : \E pr \in Range(db_projects) : pr.id = v.project_id
    /\ \A r \in Range(db_rectangles) :
           \E v \in Range(db_videos) :
               /\ v.id = r.video_id
               /\ \E c \in Range(db_classes) : c.id = r.class_id /\ c.project_id = v.project_id

\* C20: with a video loaded, advance_frame from index i with i+1 < frame_count
\* and a next frame decodable sets current_frame_index to i+1 and makes the
\* next decoded frame current, playback state untouched; when i+1 reaches
\* frame_count or the decoder is exhausted, is_playing ends False and the
\* navigator is at frame index 0 showing the first frame of the stream.
C20_AdvanceFrame ==
    [][(last'.op = "advance_frame" /\ Loaded) =>
          IF current_frame_index + 1 < frame_count /\ pos < RealLen(container)
          THEN /\ current_frame_index' = current_frame_index + 1
               /\ current_frame' = pos
               /\ is_playing' = is_playing
          ELSE /\ current_frame_index' = 0
               /\ current_frame' = 0
               /\ FramePts(container, current_frame') = first_frame_pts
               /\ ~is_playing']_vars

\* C20 witness: on b.mp4, whose frame_count over-estimates the stream, an
\* advance ran into the end of the stream and left the navigator on frame 0
C20_Witness ==
    /\ last.op = "advance_frame"
    /\ container = "b.mp4"
    /\ frame_count > RealLen(container)
    /\ current_frame_index = 0
    /\ current_frame = 0
    /\ ~is_playing

(***************************************************************************)
(*                  Properties: robustness of the navigator                *)
(***************************************************************************)
\* the argument of the last seek, and the index line 290 makes of it
SeekArg == last.arg[1]
SeekClamped ==
    IF SeekArg < 0 THEN 0 ELSE IF SeekArg > frame_count - 1 THEN frame_count - 1 ELSE SeekArg

\* the frame the decoder yields first at or after the timestamp of index i
FrameFoundFor(i) == ScanForward(container, ContainerSeek(container, TargetPts(i)), TargetPts(i))

\* C21 as stated: seek clamps any integer argument into [0, frame_count-1]:
\* a negative argument lands on index 0 and an argument >= frame_count lands
\* on index frame_count-1.
C21_SeekLandsOnClampedIndex ==
    (last.op = "seek" /\ Loaded) =>
        /\ (SeekArg < 0 => current_frame_index = 0)
        /\ (SeekArg >= frame_count => current_frame_index = frame_count - 1)

\* C21 amended: seek(i) behaves as the seek of i clamped into
\* [0, frame_count-1]: a negative argument lands on index 0 with the first
\* frame current; an argument >= frame_count lands on index frame_count-1
\* when the decoder yields a frame at or after that index's timestamp, and
\* on index 0 with the first frame current when it yields none (a
\* frame_count that over-estimates the stream).
C21_SeekBehavesAsClampedSeek ==
    (last.op = "seek" /\ Loaded) =>
        /\ current_frame_index = IF FrameFoundFor(SeekClamped) # None THEN SeekClamped ELSE 0
        /\ current_frame = IF FrameFoundFor(SeekClamped) # None
                           THEN FrameFoundFor(SeekClamped) ELSE 0
        /\ (SeekArg < 0 => current_frame_index = 0 /\ current_frame = 0)
        /\ (SeekArg >= frame_count =>
               current_frame_index = IF FrameFoundFor(frame_count - 1) # None
                                     THEN frame_count - 1 ELSE 0)

\* C21 witness: a seek past the end of a.mp4 (4 frames), landed on index 3
C21_Witness ==
    /\ last.op = "seek"
    /\ container = "a.mp4"
    /\ SeekArg = 5
    /\ frame_count = 4
    /\ current_frame_index = 3
    /\ current_frame = 3

\* C22: when, during a seek, the decoder is exhausted before a frame with
\* pts >= target_pts is found, the navigator ends at current_frame_index 0
\* with the first frame of the stream current.
C22_ExhaustedSeekResets ==
    (last.op = "seek" /\ Loaded /\ FrameFoundFor(SeekClamped) = None) =>
        /\ current_frame_index = 0
        /\ current_frame = 0
        /\ FramePts(container, current_frame) = first_frame_pts
        /\ pos = 1

\* C22 witness: b.mp4 holds 3 frames and reports 5; a seek to index 3 or
\* beyond found no frame and reset
C22_Witness ==
    /\ last.op = "seek"
    /\ container = "b.mp4"
    /\ SeekArg >= 3
    /\ frame_count = 5
    /\ FrameFoundFor(SeekClamped) = None
    /\ current_frame_index = 0
    /\ current_frame = 0

\* C23: when the container seek or a frame decode fails with an error during
\* seek, advance_frame or get_frame_by_index, the operation does not
\* propagate an exception to its caller and leaves current_frame and
\* current_frame_index as they were before the operation.
C23_BackendErrorsContained ==
    [][(last'.op \in {"seek", "advance_frame", "get_frame_by_index"} /\ last'.raised) =>
           /\ ~last'.propagated
           /\ current_frame' = current_frame
           /\ current_frame_index' = current_frame_index]_vars

\* the state cleanup() leaves: no video
NoVideoState ==
    /\ container = ""
    /\ frame_generator = FALSE
    /\ current_frame = None
    /\ video_id = None
    /\ video_name = ""
    /\ frame_count = 0
    /\ current_frame_index = 0
    /\ is_playing = FALSE
    /\ rectangles = EmptyCache

\* C24: when load_video fails at any step (open, stream lookup, metadata
\* parsing, store registration, first-frame decode), on return the model is
\* in the no-video state and no container opened by that call remains open:
\* the only container that may be left open and unheld is the one the model
\* held before the call.
C24_FailedLoadLeavesNoVideo ==
    [][(last'.op = "load_video" /\ last'.raised) =>
           /\ NoVideoState'
           /\ orphans' \subseteq orphans \cup {container}]_vars

\* C24 witness: a load of e.mp4 that failed at its first-frame decode, after
\* the store registration, while another video was loaded
C24_Witness ==
    /\ last.op = "load_video"
    /\ last.raised
    /\ last.arg = <<"e.mp4">>
    /\ last.ret # None
    /\ \E r \in Range(db_videos) : r.name = "e.mp4"
    /\ orphans # {}
    /\ NoVideoState

\* C30: at most one container is open at any time: after any sequence of
\* load_video, set_project and cleanup at most one container is open, held by
\* the model or not, so that loading a second video while one is open leaves
\* the first one closed.
C30_AtMostOneOpenContainer ==
    Cardinality(orphans \cup (IF container = "" THEN {} ELSE {<<"held", container>>})) <= 1

(***************************************************************************)
(*                  Properties: robustness of the store                    *)
(***************************************************************************)
\* the call was handed an argument that cannot be coerced to its canonical type
Uncoercible(call) ==
    \/ call.op = "create_class" /\ int_raises(call.arg[1])
    \/ call.op = "get_or_create_video" /\
           (int_raises(call.arg[1]) \/ float_raises(call.arg[3]) \/ int_raises(call.arg[4]))
    \/ call.op = "save_rectangle" /\ ~Coercible(call.arg)

\* what a call reports to its caller, and what the operation reports for a
\* uniqueness violation: the id of the row that exists, or False
Reported(call) == <<call.ret, call.ok>>
DuplicateReports(op) ==
    IF op = "save_rectangle" THEN {<<None, FALSE>>} ELSE {<<id, TRUE>> : id \in 1..MaxRows}

\* C25: a store write (create_class, get_or_create_video, save_rectangle)
\* given an argument that cannot be coerced to its canonical type writes no
\* row, does not raise into the caller, and reports an outcome that is none
\* of the outcomes reported for a uniqueness violation.
C25_CoercionFailureReported ==
    [][Uncoercible(last') =>
           /\ db_vars' = db_vars
           /\ ~last'.raised
           /\ Reported(last') \notin DuplicateReports(last'.op)]_vars

(***************************************************************************)
(*                  Properties: robustness of the export                   *)
(***************************************************************************)
\* the export passes its guards: a project and a video are selected, the
\* project has classes and the video has rectangles
CanExport ==
    /\ project_id # None
    /\ video_id # None
    /\ ProjectClasses # {}
    /\ StoreFrames(video_id) # {}

\* C26: when creating the split directories fails, the export stops before
\* it writes the manifest or any image or label file; when only the manifest
\* write fails, the export still processes every labeled frame, writes the
\* pair of every frame that can be written and reports its counts.
C26_ExportIoFailureSeverity ==
    [][last'.op = "export_dataset" =>
           /\ (last'.out.io = "mkdir" =>
                  ~last'.ok /\ files' = files /\ manifest' = manifest)
           /\ ((last'.out.io = "yaml" /\ CanExport) =>
                  /\ last'.ok
                  /\ manifest' = manifest
                  /\ Range(last'.out.visited) = StoreFrames(video_id)
                  /\ last'.out.total = Cardinality(StoreFrames(video_id))
                  /\ last'.out.export_count + last'.out.error_count = last'.out.total
                  /\ \A i \in StoreFrames(video_id) :
                         (Retrievable(i) /\ last'.out.fail[i] = "none") =>
                             \E sp \in Splits : HasPair(sp, i)')]_vars

\* C26 witness: an export whose manifest write failed and that wrote the
\* pairs of two frames
C26_Witness ==
    /\ Exported
    /\ last.out.io = "yaml"
    /\ manifest = NoManifest
    /\ last.out.export_count = 2
    /\ \E i, j \in StoreFrames(video_id) :
           i # j /\ (\E sp \in Splits : HasPair(sp, i)) /\ (\E sp \in Splits : HasPair(sp, j))

\* the stored rectangles of frame i of the exported video whose class is in
\* the export's map, as a set and in the order they were inserted
MappedTuples(i) == {t \in StoreRects(video_id, i) : t[1] \in DOMAIN last.out.class_map}
MappedInserted(i) ==
    SelectSeq(StoreRectsInserted(video_id, i), LAMBDA t : t[1] \in DOMAIN last.out.class_map)

\* the label file the export wrote for frame i, and the line of a rectangle
LabelFileOf(i) == files[<<CHOOSE sp \in Splits : HasPair(sp, i), "labels", "b", i>>]
LineOf(t) ==
    yolo_line(last.out.class_map, t, ImageSize(container)[1], ImageSize(container)[2])

\* a frame the export could retrieve and write without a failure
Writable(i) == Retrievable(i) /\ last.out.fail[i] = "none"

\* C27 as stated: a rectangle whose class id is not in the map is skipped
\* without failing its frame: the label file of a frame has exactly one line
\* per stored rectangle of that frame whose class is in the map, in storage
\* (insertion) order, and the frame is counted as exported even when every
\* one of its boxes was skipped.
C27_LabelLinesInInsertionOrder ==
    Exported =>
        \A i \in StoreFrames(video_id) :
            /\ Writable(i) => \E sp \in Splits : HasPair(sp, i)
            /\ (\E sp \in Splits : HasPair(sp, i)) =>
                   LabelFileOf(i) = [k \in 1..Len(MappedInserted(i)) |->
                                        LineOf(MappedInserted(i)[k])]

\* C27 amended: the label file of an exported frame has exactly one line per
\* stored rectangle of that frame whose class is in the map, in the order the
\* store's query returns the rows (ascending by class_id, x1, y1, x2, y2, the
\* order of the unique index), which need not be the insertion order; a
\* frame is written and counted as exported even when every one of its boxes
\* was skipped.
C27_LabelLinesInIndexOrder ==
    Exported =>
        /\ \A i \in StoreFrames(video_id) :
               /\ Writable(i) => \E sp \in Splits : HasPair(sp, i)
               /\ (\E sp \in Splits : HasPair(sp, i)) =>
                      /\ Len(LabelFileOf(i)) = Cardinality(MappedTuples(i))
                      /\ \A k \in 1..Len(LabelFileOf(i)) :
                             \E t \in MappedTuples(i) :
                                 /\ LabelFileOf(i)[k] = LineOf(t)
                                 /\ Cardinality({q \in MappedTuples(i) : TupleLess(q, t)}) = k - 1
        /\ last.out.export_count =
               Cardinality({i \in StoreFrames(video_id) : \E sp \in Splits : HasPair(sp, i)})

\* C27 witness: an export that wrote an empty label file for a frame whose
\* only box has a class of another project, and two lines for another frame
C27_Witness ==
    /\ Exported
    /\ last.out.export_count = 2
    /\ \E i, j \in StoreFrames(video_id) :
           /\ (\E sp \in Splits : HasPair(sp, i)) /\ (\E sp \in Splits : HasPair(sp, j))
           /\ StoreRects(video_id, i) # {}
           /\ LabelFileOf(i) = <<>>
           /\ Len(LabelFileOf(j)) = 2

\* C28: when an export finishes, every image file it wrote has a label file
\* with the same basename in the labels directory of the same split, also
\* for the frames that were counted as errors.
C28_EveryImageHasLabel ==
    Exported =>
        \A q \in DOMAIN files :
            q[2] = "images" => <<q[1], "labels", q[3], q[4]>> \in DOMAIN files

(***************************************************************************)
(*                  Properties: timestamps and containers                  *)
(***************************************************************************)
\* C29: for every index i in [0, frame_count-1] that the constant-rate
\* stream holds, the target PTS first_frame_pts + i * frame_duration, with
\* frame_duration as derived at load, is the PTS of the i-th frame, also when
\* time_base.denominator / (time_base.numerator * average_rate) is not an
\* integer; so the first frame with pts >= target is the i-th frame.
C29_TargetPtsIsFramePts ==
    Loaded =>
        \A i \in 0..(frame_count - 1) :
            i < RealLen(container) =>
                /\ TargetPts(i) = FramePts(container, i)
                /\ FrameFoundFor(i) = i

(***************************************************************************)
(*                         Properties: playback                            *)
(***************************************************************************)
\* C31 as stated: while a video is loaded and playing, every playback timer
\* tick performs exactly one advance_frame, and no tick's advance starts
\* while a previous advance, seek or export is still executing.
C31_EveryTickAdvancesOnce ==
    [][(last'.op = "on_timer_timeout" /\ video_id # None /\ is_playing) =>
           /\ last'.out.advances = 1
           /\ last'.out.gui = "idle"]_vars

\* C31 amended: a playback timer tick performs at most one advance_frame:
\* exactly one when a video is loaded and playing and the time since the
\* last advance has reached the frame period, and none otherwise (the tick
\* then changes nothing of the navigator).  A tick is handled between two
\* handlers, never inside an advance, a seek or the export's frame loop, or
\* while a handler waits on a message box (the export's warning before its
\* frame loop, or a final message), which it leaves waiting.
C31_TickAdvancesWhenDue ==
    [][last'.op = "on_timer_timeout" =>
           /\ last'.out.advances \in {0, 1}
           /\ (last'.out.advances = 1) <=> (video_id # None /\ is_playing /\ last'.arg[1])
           /\ last'.out.advances = 1 =>
                  current_frame_index' =
                      IF current_frame_index + 1 < frame_count /\ pos < RealLen(container)
                      THEN current_frame_index + 1 ELSE 0
           /\ last'.out.advances = 0 =>
                  /\ current_frame_index' = current_frame_index
                  /\ current_frame' = current_frame
                  /\ pos' = pos
           /\ last'.out.gui = gui
           /\ gui \in {"idle", "info", "export_warning", "export_report"}
           /\ gui' = gui]_vars

\* C31 witness: a tick that advanced to frame 1 while _export_dataset was
\* waiting on its data.yaml warning
C31_Witness ==
    /\ last.op = "on_timer_timeout"
    /\ last.out.advances = 1
    /\ last.out.gui = "export_warning"
    /\ gui = "export_warning"
    /\ is_playing
    /\ current_frame_index = 1

(***************************************************************************)
(*                     Properties: the training protocol                   *)
(***************************************************************************)
\* what a poll of the log queue appends and does, given the queue it finds
PollFollowsProtocol ==
    (last'.op = "process_log_queue" /\ log_queue) =>
        IF \E i \in 1..Len(channel) : IsSentinel(channel[i])
        THEN LET k == SetMin({i \in 1..Len(channel) : IsSentinel(channel[i])})
             IN  /\ last'.out = <<SubSeq(channel, 1, k - 1), channel[k]>>
                 /\ ~is_training'
        ELSE /\ last'.out = <<channel, "none">>
             /\ is_training' = is_training

\* the queue holds no message behind a sentinel, and no second sentinel
SentinelIsLast(q) == \A i \in 1..Len(q) : IsSentinel(q[i]) => i = Len(q)

\* C32: every run of the training entry point that ends by returning or by a
\* Python exception has put exactly one sentinel on the queue, after all of
\* its progress messages; the controller appends every message before the
\* sentinel to the log in queue order and leaves the training state when it
\* reads the sentinel.
C32_OneSentinelPerRun ==
    [][/\ (last'.op = "trainer_exits" /\ last'.arg[1] \in {"finished", "base_exception"}) =>
              (Len(channel') > 0 /\ IsSentinel(channel'[Len(channel')]))
       /\ SentinelIsLast(channel')
       /\ PollFollowsProtocol]_vars

(***************************************************************************)
(*                  Properties: the frame index stays in range             *)
(***************************************************************************)
InRange(fi) == 0 <= fi /\ fi < frame_count

\* C33: whenever a video is loaded, 0 <= current_frame_index < frame_count
\* after every completed seek, advance_frame, reset_to_start,
\* get_frame_by_index and add_rectangle, whatever their order and arguments;
\* hence every rectangle, cached or stored, is under a frame index in
\* [0, frame_count - 1].
C33_FrameIndexInRange ==
    video_id # None =>
        /\ InRange(current_frame_index)
        /\ \A fi \in DOMAIN rectangles : InRange(fi)
        /\ \A r \in Range(db_rectangles) : r.video_id = video_id => InRange(r.frame_index)

\* C33 witness: a rectangle was drawn and stored on the last frame of the video
C33_Witness ==
    /\ last.op = "add_rectangle"
    /\ last.ok
    /\ video_id # None
    /\ current_frame_index = frame_count - 1
    /\ current_frame_index \in DOMAIN rectangles
    /\ \E r \in Range(db_rectangles) : r.frame_index = frame_count - 1

(***************************************************************************)
(*                  Properties: reset_to_start terminates                  *)
(***************************************************************************)
\* C34: reset_to_start always terminates: whatever the decoder yields after
\* the seek to first_frame_pts, no frame at all included, the calls between
\* reset_to_start and _load_frame stop by themselves after a bounded number
\* of steps, and never by exhausting the interpreter's call stack.
C34_ResetToStartTerminates ==
    (last.op = "load_video" /\ last.out # <<>>) =>
        /\ last.out[2] # "RecursionError"
        /\ last.out[1] < MaxCallDepth

(***************************************************************************)
(*             Properties: get_frame_by_index against seek                 *)
(***************************************************************************)
\* the frame the scan of seek (lines 298-310) stops on for index i, if any
SeekFinds(i) == ScanForward(container, ContainerSeek(container, TargetPts(i)), TargetPts(i))

PairOnDisk(split, base, i) ==
    /\ <<split, "images", base, i>> \in DOMAIN files
    /\ <<split, "labels", base, i>> \in DOMAIN files

\* C36: after any sequence of exports of the same video into the same project
\* dataset directory the train and valid splits on disk are disjoint: no
\* frame index has its image/label pair in both.
C36_SplitsDisjointOnDisk ==
    \A i \in 0..3 : ~(PairOnDisk("train", "a", i) /\ PairOnDisk("valid", "a", i))

(***************************************************************************)
(*                  Properties: the training state                         *)
(***************************************************************************)
\* C37: after every completed controller handler (_start_training,
\* _process_log_queue, _training_finished, stop_training) is_training is True
\* exactly when a process handle and a log queue are held and the poll timer
\* runs, and none of the three is left when it is False; a process is started
\* only when no handle is held, so at most one training process is alive; a
\* start request while is_training is True starts no second process.
C37_TrainingStateConsistent ==
    [][/\ is_training' <=> (training_process' # "none" /\ log_queue' /\ log_timer')
       /\ ~is_training' => (training_process' = "none" /\ ~log_queue' /\ ~log_timer')
       /\ (training_process' = "alive" /\ training_process # "alive") =>
              training_process = "none"
       /\ (last'.op = "start_training" /\ is_training) =>
              training_vars' = training_vars]_vars

\* C37 witness: a start was requested while a training was running, and the
\* process, the queue with its waiting messages and the timer are the same
C37_Witness ==
    /\ last.op = "start_training"
    /\ last.existed
    /\ ~last.ok
    /\ is_training
    /\ training_process = "alive"
    /\ log_queue
    /\ log_timer
    /\ Len(channel) = 2

\* C38: whenever the training process has terminated, for any reason (normal
\* return, Python exception, killed or crashed without a sentinel), the
\* controller eventually leaves the training state by itself, the poll timer
\* firing.
C38_TerminationLeadsToNotTraining ==
    (is_training /\ training_process = "exited") ~> ~is_training

\* C39: _process_log_queue never uses the log queue after _training_finished
\* has released it: whatever the queue holds, a sentinel at its end or inside
\* it included, the poll completes without raising.
C39_PollCompletesWithoutRaising ==
    [][last'.op = "process_log_queue" => ~last'.raised]_vars

====
